---- MODULE Spec2Model ----
(***************************************************************************)
(* Market-data gateway (rust/gateway): the two exchange adapters           *)
(* (BinanceClient, OkxClient), the Exchange trait they implement and the   *)
(* run_gateway start-up sequence and select loop.                          *)
(*                                                                         *)
(* Text that the code takes apart (symbols, channel names, decimal         *)
(* strings) is a sequence of one-character strings; text that the code     *)
(* only passes on (end points, literal suffixes) is a TLA+ string.         *)
(* Option<T> is a sequence of length 0 (None) or 1 (Some).                 *)
(***************************************************************************)
EXTENDS Integers, Sequences, FiniteSets, TLC

\* ------------------------------------------------------------------ bounds
\* ping/pong frames that one recv_event call swallows before its last frame
MaxPings == 1
\* the count of consecutive failed reconnect attempts saturates here
MaxAttempts == 2

\* ------------------------------------------------------------ text helpers
None == <<>>
Some(x) == <<x>>

BTCUSDT == <<"B","T","C","U","S","D","T">>
ETHUSDT == <<"E","T","H","U","S","D","T">>

LowerOf ==
  "A" :> "a" @@ "B" :> "b" @@ "C" :> "c" @@ "D" :> "d" @@ "E" :> "e" @@
  "F" :> "f" @@ "G" :> "g" @@ "H" :> "h" @@ "I" :> "i" @@ "J" :> "j" @@
  "K" :> "k" @@ "L" :> "l" @@ "M" :> "m" @@ "N" :> "n" @@ "O" :> "o" @@
  "P" :> "p" @@ "Q" :> "q" @@ "R" :> "r" @@ "S" :> "s" @@ "T" :> "t" @@
  "U" :> "u" @@ "V" :> "v" @@ "W" :> "w" @@ "X" :> "x" @@ "Y" :> "y" @@
  "Z" :> "z"

\* str::to_lowercase
to_lowercase(s) ==
  [i \in 1..Len(s) |-> IF s[i] \in DOMAIN LowerOf THEN LowerOf[s[i]] ELSE s[i]]

\* Vec::contains
VecContains(v, x) == \E i \in 1..Len(v) : v[i] = x

\* ------------------------------------------------------------- exchange.rs
Binance == "binance"
Okx == "okx"
ExchangeType == {Binance, Okx}

DataType == {"AggTrade", "Kline", "Depth", "BookTicker"}

KlineInterval ==
  {"OneMinute", "FiveMinutes", "FifteenMinutes", "ThirtyMinutes",
   "OneHour", "FourHours", "OneDay"}

\* KlineInterval::as_str
as_str ==
  "OneMinute" :> <<"1","m">> @@ "FiveMinutes" :> <<"5","m">> @@
  "FifteenMinutes" :> <<"1","5","m">> @@ "ThirtyMinutes" :> <<"3","0","m">> @@
  "OneHour" :> <<"1","h">> @@ "FourHours" :> <<"4","h">> @@
  "OneDay" :> <<"1","d">>

Subscription(symbol, data_type, interval) ==
  [symbol |-> symbol, data_type |-> data_type, interval |-> interval]

\* ----------------------------------------------------------------- main.rs
\* GatewayConfig::default().symbols
ConfigSymbols == <<BTCUSDT, ETHUSDT>>

create_subscriptions_intervals ==
  <<"OneMinute", "FiveMinutes", "FifteenMinutes", "ThirtyMinutes",
    "OneHour", "FourHours">>

\* the pushes of one pass of the `for symbol in symbols` body
subscriptions_of(symbol) ==
  <<Subscription(symbol, "AggTrade", None)>>
  \o [i \in 1..Len(create_subscriptions_intervals) |->
        Subscription(symbol, "Kline", Some(create_subscriptions_intervals[i]))]
  \o <<Subscription(symbol, "BookTicker", None),
       Subscription(symbol, "Depth", None)>>

RECURSIVE create_subscriptions(_)
create_subscriptions(symbols) ==
  IF symbols = <<>> THEN <<>>
  ELSE subscriptions_of(Head(symbols)) \o create_subscriptions(Tail(symbols))

\* ------------------------------------------------- results of adapter calls
\* c: the adapter after the call, ok: Ok or Err, ret: the Ok value,
\* fx: what the call did to the outside world, in order
Ok(c, ret, fx) == [c |-> c, ok |-> TRUE, ret |-> ret, fx |-> fx]
Err(c, fx) == [c |-> c, ok |-> FALSE, ret |-> None, fx |-> fx]

Fx(k, v) == [k |-> k, v |-> v]
\* connect_async succeeded on url
FxOpen(url) == Fx("open", url)
\* ws.close(None) on the stream, and whether it succeeded
FxClose(okay) == Fx("close", okay)
\* a stream value went out of scope without close()
FxDrop == Fx("drop", None)
FxSend(msg, okay) == Fx("send", [msg |-> msg, ok |-> okay])
\* a pong that leaves the payload of the ping out
FxPongEmpty(payload, okay) == Fx("pong", [payload |-> <<>>, ok |-> okay])
\* ws.send(Message::Pong(payload)), and whether it succeeded
FxPong(payload, okay) == Fx("pong", [payload |-> payload, ok |-> okay])
FxPublish(channel, event, okay) ==
  Fx("publish", [channel |-> channel, event |-> event, ok |-> okay])

CountFx(fx, k) == Cardinality({i \in 1..Len(fx) : fx[i].k = k})

\* a WebSocketStream: the URL it was opened on and whether the transport
\* under it still works
Stream(url) == [url |-> url, alive |-> TRUE]

\* self.symbols after the "Track symbols" loop
RECURSIVE track_symbols(_, _)
track_symbols(symbols, subs) ==
  IF subs = <<>> THEN symbols
  ELSE track_symbols(
         IF VecContains(symbols, Head(subs).symbol) THEN symbols
         ELSE Append(symbols, Head(subs).symbol),
         Tail(subs))

\* -------------------------------------------------------------- binance.rs
BINANCE_FUTURES_WS == "wss://fstream.binance.com/ws"
BINANCE_FUTURES_TESTNET_WS == "wss://stream.binancefuture.com/ws"

\* BinanceClient::new; socks counts the transport connections the adapter
\* has opened and neither closed nor dropped
BinanceClient_new(testnet) ==
  [exchange_type |-> Binance,
   ws_url |-> IF testnet THEN BINANCE_FUTURES_TESTNET_WS ELSE BINANCE_FUTURES_WS,
   ws |-> None,
   symbols |-> <<>>,
   redis_publisher |-> FALSE,
   connected |-> FALSE,
   socks |-> 0]

with_redis_publisher(c) == [c EXCEPT !.redis_publisher = TRUE]

\* stream_token that keeps the symbol's case and reads the interval for
\* every kind
stream_token_as_is(sub) ==
  CASE sub.data_type = "AggTrade" /\ sub.interval = None -> sub.symbol \o <<"@aggTrade">>
    [] sub.data_type = "Kline" ->
         sub.symbol \o <<"@kline_">>
           \o as_str[IF sub.interval = None THEN "OneMinute" ELSE sub.interval[1]]
    [] sub.data_type = "Depth" -> sub.symbol \o <<"@depth@100ms">>
    [] sub.data_type = "BookTicker" -> sub.symbol \o <<"@bookTicker">>
    [] OTHER -> sub.symbol \o <<"@aggTrade_">> \o as_str[sub.interval[1]]

\* one stream token of build_stream_url
stream_token(sub) ==
  LET symbol_lower == to_lowercase(sub.symbol) IN
  CASE sub.data_type = "AggTrade" -> symbol_lower \o <<"@aggTrade">>
    [] sub.data_type = "Kline" ->
         symbol_lower \o <<"@kline_">>
           \o as_str[IF sub.interval = None THEN "OneMinute" ELSE sub.interval[1]]
    [] sub.data_type = "Depth" -> symbol_lower \o <<"@depth@100ms">>
    [] sub.data_type = "BookTicker" -> symbol_lower \o <<"@bookTicker">>

\* A URL is its base followed by the path segments that "/" separates.
build_stream_url(c, subscriptions) ==
  IF subscriptions = <<>> THEN <<c.ws_url, <<>>>>
  ELSE <<c.ws_url>> \o [i \in 1..Len(subscriptions) |-> stream_token(subscriptions[i])]

\* self.ws = Some(ws_stream): the value that was there is dropped
set_ws(c, url) ==
  [c EXCEPT !.ws = Some(Stream(url)),
            !.socks = IF c.ws = None THEN c.socks + 1 ELSE c.socks]

replaced_fx(c, url) ==
  <<FxOpen(url)>> \o (IF c.ws = None THEN <<>> ELSE <<FxDrop>>)

\* net: whether connect_async succeeds
binance_connect(c, net) ==
  IF ~net THEN Err(c, <<>>)
  ELSE Ok([set_ws(c, <<c.ws_url>>) EXCEPT !.connected = TRUE],
          None, replaced_fx(c, <<c.ws_url>>))

\* closeOk: whether ws.close(None) succeeds
binance_disconnect(c, closeOk) ==
  IF c.ws # None
    THEN LET taken == [c EXCEPT !.ws = None, !.socks = c.socks - 1] IN
         IF ~closeOk THEN Err(taken, <<FxClose(FALSE)>>)
         ELSE Ok([taken EXCEPT !.connected = FALSE], None, <<FxClose(TRUE)>>)
    ELSE Ok([c EXCEPT !.connected = FALSE], None, <<>>)

\* variant of binance_subscribe that opens the new stream over the old one
binance_subscribe_no_disconnect(c, subscriptions, closeOk, net) ==
  LET open(d, stream_url) ==
        IF ~net THEN Err(d.c, d.fx)
        ELSE Ok([set_ws(d.c, stream_url) EXCEPT
                   !.connected = TRUE,
                   !.symbols = track_symbols(d.c.symbols, subscriptions)],
                None, d.fx \o replaced_fx(d.c, stream_url))
  IN open(Ok(c, None, <<>>), build_stream_url(c, subscriptions))

\* d: the outcome of `if self.connected { self.disconnect().await?; }`
binance_subscribe(c, subscriptions, closeOk, net) ==
  LET open(d, stream_url) ==
        IF ~d.ok THEN Err(d.c, d.fx)
        ELSE IF ~net THEN Err(d.c, d.fx)
        ELSE Ok([set_ws(d.c, stream_url) EXCEPT
                   !.connected = TRUE,
                   !.symbols = track_symbols(d.c.symbols, subscriptions)],
                None, d.fx \o replaced_fx(d.c, stream_url))
  IN open(IF c.connected THEN binance_disconnect(c, closeOk) ELSE Ok(c, None, <<>>),
          build_stream_url(c, subscriptions))

binance_unsubscribe(c, subscriptions) == Ok(c, None, <<>>)

\* ------------------------------------------------------------------ okx.rs
OKX_WS_PUBLIC == "wss://ws.okx.com:8443/ws/v5/public"
OKX_WS_DEMO == "wss://wspap.okx.com:8443/ws/v5/public"

OkxClient_new(demo_trading) ==
  [exchange_type |-> Okx,
   ws_url |-> IF demo_trading THEN OKX_WS_DEMO ELSE OKX_WS_PUBLIC,
   ws |-> None,
   symbols |-> <<>>,
   redis_publisher |-> FALSE,
   connected |-> FALSE,
   socks |-> 0]

\* str::starts_with
StartsWith(s, pat) == Len(s) >= Len(pat) /\ SubSeq(s, 1, Len(pat)) = pat

\* str::replace for a non-empty pattern: matches are taken left to right and
\* do not overlap
RECURSIVE Replace(_, _, _)
Replace(s, pat, to) ==
  IF Len(s) < Len(pat) THEN s
  ELSE IF StartsWith(s, pat)
         THEN to \o Replace(SubSeq(s, Len(pat) + 1, Len(s)), pat, to)
         ELSE <<Head(s)>> \o Replace(Tail(s), pat, to)

S_USDT == <<"U","S","D","T">>
S_USD == <<"U","S","D">>

\* okx_symbol with "/" for the separator
okx_symbol_slash(symbol) ==
  Replace(Replace(symbol, S_USDT, <<"/">> \o S_USDT), S_USD, <<"/">> \o S_USD)

okx_symbol(symbol) ==
  Replace(Replace(symbol, S_USDT, <<"-">> \o S_USDT), S_USD, <<"-">> \o S_USD)

\* standard_symbol with str::replacen(.., 1): only the first hyphen goes
standard_symbol_first(okx_sym) ==
  LET at == {i \in 1..Len(okx_sym) : okx_sym[i] = "-"} IN
  IF at = {} THEN okx_sym
  ELSE LET k == CHOOSE i \in at : \A j \in at : i <= j IN
       SubSeq(okx_sym, 1, k - 1) \o SubSeq(okx_sym, k + 1, Len(okx_sym))

standard_symbol(okx_sym) == Replace(okx_sym, <<"-">>, <<>>)

\* the channel name of one subscription in build_subscription_msg
subscription_channel(sub) ==
  LET channel(inst_id) ==
        CASE sub.data_type = "AggTrade" -> <<"public-trade:">> \o inst_id
          [] sub.data_type = "Kline" ->
               <<"public-candle">>
                 \o as_str[IF sub.interval = None THEN "OneMinute"
                           ELSE sub.interval[1]]
                 \o <<":">> \o inst_id
          [] sub.data_type = "Depth" -> <<"public-books:">> \o inst_id
          [] sub.data_type = "BookTicker" -> <<"public-tickers:">> \o inst_id
  IN channel(okx_symbol(sub.symbol))

build_subscription_msg(subscriptions) ==
  [op |-> "subscribe",
   args |-> [i \in 1..Len(subscriptions) |->
               [channel |-> subscription_channel(subscriptions[i]),
                op |-> "subscribe"]]]

okx_connect(c, net) ==
  IF ~net THEN Err(c, <<>>)
  ELSE Ok([set_ws(c, <<c.ws_url>>) EXCEPT !.connected = TRUE],
          None, replaced_fx(c, <<c.ws_url>>))

okx_disconnect(c, closeOk) ==
  IF c.ws # None
    THEN LET taken == [c EXCEPT !.ws = None, !.socks = c.socks - 1] IN
         IF ~closeOk THEN Err(taken, <<FxClose(FALSE)>>)
         ELSE Ok([taken EXCEPT !.connected = FALSE], None, <<FxClose(TRUE)>>)
    ELSE Ok([c EXCEPT !.connected = FALSE], None, <<>>)

\* a send that fails leaves a stream whose transport is broken
broken(c) == [c EXCEPT !.ws = Some([c.ws[1] EXCEPT !.alive = FALSE])]

\* net: whether connect_async succeeds; sendOk: whether ws.send succeeds
\* o: the outcome of `if !self.connected { self.connect().await?; }`
okx_subscribe(c, subscriptions, net, sendOk) ==
  LET send(o, sub_msg) ==
        IF ~o.ok THEN Err(o.c, o.fx)
        ELSE IF o.c.ws # None /\ ~sendOk
          THEN Err(broken(o.c), o.fx \o <<FxSend(sub_msg, FALSE)>>)
        ELSE Ok([o.c EXCEPT !.symbols = track_symbols(o.c.symbols, subscriptions)],
                None,
                o.fx \o (IF o.c.ws # None THEN <<FxSend(sub_msg, TRUE)>>
                         ELSE <<>>))
  IN send(IF ~c.connected THEN okx_connect(c, net) ELSE Ok(c, None, <<>>),
          build_subscription_msg(subscriptions))

okx_unsubscribe(c, subscriptions) == Ok(c, None, <<>>)

\* -------------------------------------------------------------- serde_json
\* A JSON value is a tagged pair; an object is a function from its keys.
JNull == <<"null">>
JStr(s) == <<"str", s>>
JNum(n) == <<"num", n>>
JBool(b) == <<"bool", b>>
JArr(a) == <<"arr", a>>
JObj(o) == <<"obj", o>>

\* Value::get(&str) and Value::get(usize)
Get(v, key) ==
  IF v[1] = "obj" /\ key \in DOMAIN v[2] THEN Some(v[2][key]) ELSE None
GetN(v, n) ==
  IF v[1] = "arr" /\ n + 1 <= Len(v[2]) THEN Some(v[2][n + 1]) ELSE None

\* value["key"] and value[n]: Null where get() gives None
Index(v, key) == IF Get(v, key) = None THEN JNull ELSE Get(v, key)[1]
IndexN(v, n) == IF GetN(v, n) = None THEN JNull ELSE GetN(v, n)[1]

as_string(v) == IF v[1] = "str" THEN Some(v[2]) ELSE None
as_i64(v) == IF v[1] = "num" THEN Some(v[2]) ELSE None
as_u64(v) == IF v[1] = "num" /\ v[2] >= 0 THEN Some(v[2]) ELSE None
as_bool(v) == IF v[1] = "bool" THEN Some(v[2]) ELSE None
as_array(v) == IF v[1] = "arr" THEN Some(v[2]) ELSE None

\* Option::and_then
and_then(o, F(_)) == IF o = None THEN None ELSE F(o[1])

\* ------------------------------------------------------------ str::parse
DigitVal ==
  "0" :> 0 @@ "1" :> 1 @@ "2" :> 2 @@ "3" :> 3 @@ "4" :> 4 @@
  "5" :> 5 @@ "6" :> 6 @@ "7" :> 7 @@ "8" :> 8 @@ "9" :> 9
Digits == DOMAIN DigitVal

RECURSIVE DigitsToNat(_)
DigitsToNat(s) ==
  IF s = <<>> THEN 0
  ELSE 10 * DigitsToNat(SubSeq(s, 1, Len(s) - 1)) + DigitVal[s[Len(s)]]

AllDigits(s) == \A i \in 1..Len(s) : s[i] \in Digits

\* str::parse::<u64>: digits after an optional "+"
ParseU64(s) ==
  LET body == IF s # <<>> /\ s[1] = "+" THEN Tail(s) ELSE s IN
  IF body # <<>> /\ AllDigits(body) THEN Some(DigitsToNat(body)) ELSE None

\* str::parse::<i64>: digits after an optional sign
ParseI64(s) ==
  LET signed == s # <<>> /\ s[1] \in {"+", "-"}
      body == IF signed THEN Tail(s) ELSE s
  IN IF body # <<>> /\ AllDigits(body)
       THEN Some(IF signed /\ s[1] = "-" THEN 0 - DigitsToNat(body)
                 ELSE DigitsToNat(body))
       ELSE None

\* the decimal value mant / 10^scale
Decimal(mant, scale) == [mant |-> mant, scale |-> scale]

RECURSIVE TrimZeros(_)
TrimZeros(s) ==
  IF s # <<>> /\ s[Len(s)] = "0" THEN TrimZeros(SubSeq(s, 1, Len(s) - 1)) ELSE s

\* str::parse::<f64> on plain decimal notation: an optional sign, digits
\* with at most one point, at least one digit (exponents, inf and nan are
\* not in the frames of this model).  The value is kept exactly, without the
\* zeros that end the fraction.
ParseF64(s) ==
  LET Signed(mant) == IF s # <<>> /\ s[1] = "-" THEN 0 - mant ELSE mant
      \* int, frac: the digits before the point and, without the zeros that
      \* end them, after it
      Parts(int, frac) ==
        IF AllDigits(int) /\ AllDigits(frac) /\ Len(int) + Len(frac) >= 1
          THEN Some(Decimal(Signed(DigitsToNat(int \o frac)), Len(frac)))
          ELSE None
      SplitAt(body, dot) ==
        IF \E i \in (dot + 1)..Len(body) : body[i] = "." THEN None
        ELSE Parts(SubSeq(body, 1, dot - 1),
                   TrimZeros(SubSeq(body, dot + 1, Len(body))))
      Unsigned(body) ==
        IF \E i \in 1..Len(body) : body[i] = "."
          THEN SplitAt(body, CHOOSE i \in 1..Len(body) :
                               body[i] = "." /\ \A j \in 1..(i - 1) : body[j] # ".")
          ELSE SplitAt(body, Len(body) + 1)
  IN Unsigned(IF s # <<>> /\ s[1] \in {"+", "-"} THEN Tail(s) ELSE s)

\* value[key].as_str()...parse::<f64>(): None when either step fails
f64_of(v) == and_then(as_string(v), ParseF64)

\* ------------------------------------------------- results of the parsers
POk(event) == [ok |-> TRUE, event |-> event]
PErr == [ok |-> FALSE, event |-> None]

\* ------------------------------------------------------ binance.rs parsers
S_aggTrade == <<"a","g","g","T","r","a","d","e">>
S_kline == <<"k","l","i","n","e">>
S_depthUpdate == <<"d","e","p","t","h","U","p","d","a","t","e">>
S_bookTicker == <<"b","o","o","k","T","i","c","k","e","r">>

\* parse_agg_trade with the price read from "q" and the maker flag inverted
binance_parse_agg_trade_mixed(c, data) ==
  LET price == f64_of(Index(data, "q"))
      quantity == f64_of(Index(data, "q"))
      symbol == as_string(Index(data, "s"))
      is_buyer_maker == as_bool(Index(data, "m"))
      trade_id == as_u64(Index(data, "a"))
      timestamp == as_i64(Index(data, "T"))
  IN IF price = None \/ quantity = None \/ symbol = None
        \/ is_buyer_maker = None \/ trade_id = None \/ timestamp = None
       THEN PErr
       ELSE POk([kind |-> "AggTrade",
                 exchange |-> c.exchange_type,
                 symbol |-> symbol[1],
                 price |-> price[1],
                 quantity |-> quantity[1],
                 timestamp |-> timestamp[1],
                 is_buyer_maker |-> ~is_buyer_maker[1],
                 trade_id |-> trade_id[1]])

binance_parse_agg_trade(c, data) ==
  LET price == f64_of(Index(data, "p"))
      quantity == f64_of(Index(data, "q"))
      symbol == as_string(Index(data, "s"))
      is_buyer_maker == as_bool(Index(data, "m"))
      trade_id == as_u64(Index(data, "a"))
      \* ok_or_else(..)? returns before the fallback to "E" is looked at
      timestamp == as_i64(Index(data, "T"))
  IN IF price = None \/ quantity = None \/ symbol = None
        \/ is_buyer_maker = None \/ trade_id = None \/ timestamp = None
       THEN PErr
       ELSE POk([kind |-> "AggTrade",
                 exchange |-> c.exchange_type,
                 symbol |-> symbol[1],
                 price |-> price[1],
                 quantity |-> quantity[1],
                 timestamp |-> timestamp[1],
                 is_buyer_maker |-> is_buyer_maker[1],
                 trade_id |-> trade_id[1]])

binance_parse_kline(c, data) ==
  LET kopt == Get(data, "k")
      k == IF kopt = None THEN JNull ELSE kopt[1]
      symbol == as_string(Index(data, "s"))
      interval == as_string(Index(k, "i"))
      open_time == as_i64(Index(k, "t"))
      close_time == as_i64(Index(k, "T"))
      open == f64_of(Index(k, "o"))
      high == f64_of(Index(k, "h"))
      low == f64_of(Index(k, "l"))
      close == f64_of(Index(k, "c"))
      volume == f64_of(Index(k, "v"))
      is_closed == as_bool(Index(k, "x"))
  IN IF kopt = None \/ symbol = None \/ interval = None \/ open_time = None
        \/ close_time = None \/ open = None \/ high = None \/ low = None
        \/ close = None \/ volume = None \/ is_closed = None
       THEN PErr
       ELSE POk([kind |-> "Kline",
                 exchange |-> c.exchange_type,
                 symbol |-> symbol[1],
                 interval |-> interval[1],
                 open_time |-> open_time[1],
                 close_time |-> close_time[1],
                 open |-> open[1],
                 high |-> high[1],
                 low |-> low[1],
                 close |-> close[1],
                 volume |-> volume[1],
                 is_closed |-> is_closed[1]])

\* the pushes of the loop over one side's array of price levels
RECURSIVE depth_levels(_)
depth_levels(entries) ==
  IF entries = <<>> THEN <<>>
  ELSE LET arr == as_array(Head(entries))
           price == IF arr # None /\ Len(arr[1]) >= 2 THEN f64_of(arr[1][1]) ELSE None
           qty == IF arr # None /\ Len(arr[1]) >= 2 THEN f64_of(arr[1][2]) ELSE None
       IN (IF price # None /\ qty # None THEN <<(<<price[1], qty[1]>>)>> ELSE <<>>)
          \o depth_levels(Tail(entries))

depth_side(data, key) ==
  LET arr == and_then(Get(data, key), as_array) IN
  IF arr = None THEN <<>> ELSE depth_levels(arr[1])

\* variant of parse_depth_update that reads the bids from "a" and the asks
\* from "b"
binance_parse_depth_update_swapped(c, data) ==
  LET symbol == as_string(Index(data, "s"))
      timestamp == as_i64(Index(data, "E"))
  IN IF symbol = None \/ timestamp = None THEN PErr
     ELSE POk([kind |-> "DepthUpdate",
               exchange |-> c.exchange_type,
               symbol |-> symbol[1],
               bids |-> depth_side(data, "a"),
               asks |-> depth_side(data, "b"),
               timestamp |-> timestamp[1]])

binance_parse_depth_update(c, data) ==
  LET symbol == as_string(Index(data, "s"))
      timestamp == as_i64(Index(data, "E"))
  IN IF symbol = None \/ timestamp = None THEN PErr
     ELSE POk([kind |-> "DepthUpdate",
               exchange |-> c.exchange_type,
               symbol |-> symbol[1],
               bids |-> depth_side(data, "b"),
               asks |-> depth_side(data, "a"),
               timestamp |-> timestamp[1]])

\* now: chrono::Utc::now().timestamp_millis() at the time of the call
binance_parse_book_ticker(c, data, now) ==
  LET symbol == as_string(Index(data, "s"))
      bid_price == f64_of(Index(data, "b"))
      bid_qty == f64_of(Index(data, "B"))
      ask_price == f64_of(Index(data, "a"))
      ask_qty == f64_of(Index(data, "A"))
      E == and_then(Get(data, "E"), as_i64)
  IN IF symbol = None \/ bid_price = None \/ bid_qty = None
        \/ ask_price = None \/ ask_qty = None
       THEN PErr
       ELSE POk([kind |-> "BookTicker",
                 exchange |-> c.exchange_type,
                 symbol |-> symbol[1],
                 bid_price |-> bid_price[1],
                 bid_qty |-> bid_qty[1],
                 ask_price |-> ask_price[1],
                 ask_qty |-> ask_qty[1],
                 timestamp |-> IF E = None THEN now ELSE E[1]])

\* msg: the text of the frame as serde_json::from_str reads it, None when it
\* is not JSON
binance_parse_message(c, msg, now) ==
  IF msg = None THEN PErr
  ELSE LET data == msg[1]
           event_type == and_then(Get(data, "e"), as_string)
       IN IF event_type = None THEN PErr
          ELSE CASE event_type[1] = S_aggTrade -> binance_parse_agg_trade(c, data)
                 [] event_type[1] = S_kline -> binance_parse_kline(c, data)
                 [] event_type[1] = S_depthUpdate -> binance_parse_depth_update(c, data)
                 [] event_type[1] = S_bookTicker -> binance_parse_book_ticker(c, data, now)
                 [] OTHER -> PErr

\* ---------------------------------------------------------- okx.rs parsers
S_trade == <<"t","r","a","d","e">>
S_candle == <<"c","a","n","d","l","e">>
S_tickers == <<"t","i","c","k","e","r","s">>
S_books == <<"b","o","o","k","s">>
S_public_candle == <<"p","u","b","l","i","c","-","c","a","n","d","l","e">>
S_subscribe == <<"s","u","b","s","c","r","i","b","e">>
S_sell == <<"s","e","l","l">>

\* str::contains
Contains(s, pat) ==
  \E i \in 1..(Len(s) - Len(pat) + 1) : SubSeq(s, i, i + Len(pat) - 1) = pat

\* str::split(ch).next(): the text before the first ch, all of it without one
split_next(s, ch) ==
  LET at == {i \in 1..Len(s) : s[i] = ch} IN
  IF at = {} THEN s
  ELSE SubSeq(s, 1, (CHOOSE i \in at : \A j \in at : i <= j) - 1)

strip_prefix(s, pat) ==
  IF StartsWith(s, pat) THEN Some(SubSeq(s, Len(pat) + 1, Len(s))) ELSE None

ends_with(s, ch) == s # <<>> /\ s[Len(s)] = ch

RECURSIVE trim_end_matches(_, _)
trim_end_matches(s, ch) ==
  IF ends_with(s, ch) THEN trim_end_matches(SubSeq(s, 1, Len(s) - 1), ch) ELSE s

\* `timestamp as u64`: a negative n wraps to 2^64 + n, written <<"2^64+", n>>
i64_as_u64(n) == IF n >= 0 THEN n ELSE <<"2^64+", n>>

\* data.get("data").and_then(|d| d.as_array())
data_array(data) == and_then(Get(data, "data"), as_array)

okx_parse_trade(c, data, symbol) ==
  LET arr == data_array(data) IN
  IF arr = None \/ arr = Some(<<>>) THEN PErr
  ELSE LET trade == arr[1][1]
           price == f64_of(Index(trade, "px"))
           quantity == f64_of(Index(trade, "sz"))
           timestamp == as_i64(Index(trade, "ts"))
           side == as_string(Index(trade, "side"))
       IN IF price = None \/ quantity = None \/ timestamp = None \/ side = None
            THEN PErr
            ELSE POk([kind |-> "AggTrade",
                      exchange |-> c.exchange_type,
                      symbol |-> standard_symbol(symbol),
                      price |-> price[1],
                      quantity |-> quantity[1],
                      timestamp |-> timestamp[1],
                      is_buyer_maker |-> (side[1] = S_sell),
                      trade_id |-> i64_as_u64(timestamp[1])])

\* interval_ms that counts every unit as minutes
interval_ms_minutes(interval) ==
  LET parsed == ParseU64(trim_end_matches(
                  trim_end_matches(trim_end_matches(interval, "m"), "h"), "d"))
      num == IF parsed = None THEN 1 ELSE parsed[1]
  IN num * 60000

interval_ms(interval) ==
  LET parsed == ParseU64(trim_end_matches(
                  trim_end_matches(trim_end_matches(interval, "m"), "h"), "d"))
      num == IF parsed = None THEN 1 ELSE parsed[1]
      base == IF ends_with(interval, "m") THEN 60000
              ELSE IF ends_with(interval, "h") THEN 3600000
              ELSE IF ends_with(interval, "d") THEN 86400000
              ELSE 60000
  IN num * base

okx_parse_kline(c, data, symbol, channel) ==
  LET arr == data_array(data) IN
  IF arr = None \/ arr = Some(<<>>) THEN PErr
  ELSE LET candle == arr[1][1]
           stripped == strip_prefix(split_next(channel, ":"), S_public_candle)
           interval == IF stripped = None THEN <<"1","m">> ELSE stripped[1]
           open == f64_of(IndexN(candle, 0))
           high == f64_of(IndexN(candle, 1))
           low == f64_of(IndexN(candle, 2))
           close == f64_of(IndexN(candle, 3))
           volume == f64_of(IndexN(candle, 5))
           timestamp == and_then(as_string(IndexN(candle, 0)), ParseI64)
           confirm == and_then(Get(candle, "confirm"), as_bool)
       IN IF open = None \/ high = None \/ low = None \/ close = None
             \/ volume = None \/ timestamp = None
            THEN PErr
            ELSE POk([kind |-> "Kline",
                      exchange |-> c.exchange_type,
                      symbol |-> standard_symbol(symbol),
                      interval |-> interval,
                      open_time |-> timestamp[1],
                      close_time |-> timestamp[1] + interval_ms(interval) - 1,
                      open |-> open[1],
                      high |-> high[1],
                      low |-> low[1],
                      close |-> close[1],
                      volume |-> volume[1],
                      is_closed |-> IF confirm = None THEN FALSE ELSE confirm[1]])

\* .parse::<f64>().unwrap_or(0.0) on a field that has to be a string
f64_or_zero(s) ==
  LET unwrap_or(parsed) == IF parsed = None THEN Decimal(0, 0) ELSE parsed[1]
  IN unwrap_or(ParseF64(s))

okx_parse_ticker(c, data, symbol) ==
  LET arr == data_array(data) IN
  IF arr = None \/ arr = Some(<<>>) THEN PErr
  ELSE LET ticker == arr[1][1]
           bid_price == as_string(Index(ticker, "bidPx"))
           bid_qty == as_string(Index(ticker, "bidSz"))
           ask_price == as_string(Index(ticker, "askPx"))
           ask_qty == as_string(Index(ticker, "askSz"))
           timestamp == as_i64(Index(ticker, "ts"))
       IN IF bid_price = None \/ bid_qty = None \/ ask_price = None
             \/ ask_qty = None \/ timestamp = None
            THEN PErr
            ELSE POk([kind |-> "BookTicker",
                      exchange |-> c.exchange_type,
                      symbol |-> standard_symbol(symbol),
                      bid_price |-> f64_or_zero(bid_price[1]),
                      bid_qty |-> f64_or_zero(bid_qty[1]),
                      ask_price |-> f64_or_zero(ask_price[1]),
                      ask_qty |-> f64_or_zero(ask_qty[1]),
                      timestamp |-> timestamp[1]])

\* the `books` branch of parse_message
okx_parse_books(c, data, symbol, now) ==
  LET ts == and_then(and_then(Get(data, "data"), LAMBDA d : Get(d, "ts")), as_i64) IN
  POk([kind |-> "DepthUpdate",
       exchange |-> c.exchange_type,
       symbol |-> standard_symbol(symbol),
       bids |-> <<>>,
       asks |-> <<>>,
       timestamp |-> IF ts = None THEN now ELSE ts[1]])

okx_parse_message(c, msg, now) ==
  IF msg = None THEN PErr
  ELSE LET data == msg[1]
           event == and_then(Get(data, "event"), as_string)
           arg == Get(data, "arg")
           channel == and_then(and_then(arg, LAMBDA a : Get(a, "channel")), as_string)
           symbol == and_then(and_then(arg, LAMBDA a : Get(a, "instId")), as_string)
       IN IF event = Some(S_subscribe) THEN PErr
          ELSE IF arg = None \/ channel = None \/ symbol = None THEN PErr
          ELSE IF Contains(channel[1], S_trade)
                 THEN okx_parse_trade(c, data, symbol[1])
          ELSE IF Contains(channel[1], S_candle)
                 THEN okx_parse_kline(c, data, symbol[1], channel[1])
          ELSE IF Contains(channel[1], S_tickers)
                 THEN okx_parse_ticker(c, data, symbol[1])
          ELSE IF Contains(channel[1], S_books)
                 THEN okx_parse_books(c, data, symbol[1], now)
          ELSE PErr

\* -------------------------------------------------------- redis_publisher.rs
CHANNEL_TICK == "flash_arb:tick"
CHANNEL_KLINE == "flash_arb:kline"
CHANNEL_DEPTH == "flash_arb:depth"
CHANNEL_TICKER == "flash_arb:ticker"

\* prepare_event with the kline arm routed to the tick channel
prepare_event_kline_as_tick(event) ==
  CASE event.kind = "AggTrade" -> CHANNEL_TICK
    [] event.kind = "Kline" -> CHANNEL_TICK
    [] event.kind = "DepthUpdate" -> CHANNEL_DEPTH
    [] event.kind = "BookTicker" -> CHANNEL_TICKER

\* the channel half of prepare_event
prepare_event(event) ==
  CASE event.kind = "AggTrade" -> CHANNEL_TICK
    [] event.kind = "Kline" -> CHANNEL_KLINE
    [] event.kind = "DepthUpdate" -> CHANNEL_DEPTH
    [] event.kind = "BookTicker" -> CHANNEL_TICKER

\* variant of publish_event that publishes again after a failure
publish_event_retry(event, pubOk) ==
  IF pubOk THEN <<FxPublish(prepare_event(event), event, TRUE)>>
  ELSE <<FxPublish(prepare_event(event), event, FALSE),
         FxPublish(prepare_event(event), event, TRUE)>>

\* pubOk: whether conn.publish succeeds
publish_event(event, pubOk) == <<FxPublish(prepare_event(event), event, pubOk)>>

\* ------------------------------------------------------------- recv_event
\* What ws.next() hands over: k is the kind of frame ("text", "ping", "pong",
\* "other" for binary and raw frames, "close"), "err" for Some(Err(_)) and
\* "eof" for None.  frame is the text of a text frame and the payload of a
\* ping (NoFrame: the empty payload).  okay is the outcome
\* of the await that follows the read: the pong send after a ping, the
\* publish after a text frame.
Item(k, frame, okay) == [k |-> k, frame |-> frame, okay |-> okay]
NoFrame == [label |-> "none", msg |-> None]
FxRead(k) == Fx("read", k)

\* the stream in self.ws after the transport under it has failed or ended
dead(c) == [c EXCEPT !.ws = Some([c.ws[1] EXCEPT !.alive = FALSE])]

\* variant of binance_on_text that treats a parse failure as a transport fault
binance_on_text_hard(c, parsed, pubOk, seen) ==
  IF parsed.ok
    THEN Ok(c, Some(parsed.event),
            seen \o (IF c.redis_publisher THEN publish_event(parsed.event, pubOk)
                     ELSE <<>>))
    ELSE Err([c EXCEPT !.connected = FALSE], seen)

\* the Some(Ok(Message::Text(text))) arm of recv_event, after parse_message
\* has given `parsed`; seen: the effects of the call up to here
binance_on_text(c, parsed, pubOk, seen) ==
  IF parsed.ok
    THEN Ok(c, Some(parsed.event),
            seen \o (IF c.redis_publisher THEN publish_event(parsed.event, pubOk)
                     ELSE <<>>))
    ELSE Ok(c, None, seen)

\* script: what ws.next() hands over, read by read; seen: the effects of
\* the calls that have recursed into this one
RECURSIVE binance_recv_event(_, _, _, _)
binance_recv_event(c, script, now, seen) ==
  IF ~c.connected \/ c.ws = None THEN Ok(c, None, seen)
  ELSE LET item == Head(script)
           read == Append(seen, FxRead(item.k))
       IN CASE item.k = "text" ->
                 binance_on_text(c, binance_parse_message(c, item.frame.msg, now),
                                 item.okay, read)
            [] item.k = "ping" ->
                 IF ~item.okay THEN Err(dead(c), Append(read, FxPong(item.frame.msg, FALSE)))
                 ELSE binance_recv_event(c, Tail(script), now,
                                         Append(read, FxPong(item.frame.msg, TRUE)))
            [] item.k = "pong" -> binance_recv_event(c, Tail(script), now, read)
            [] item.k = "close" -> Ok([dead(c) EXCEPT !.connected = FALSE], None, read)
            [] item.k = "err" -> Err([dead(c) EXCEPT !.connected = FALSE], read)
            [] item.k = "eof" -> Ok([dead(c) EXCEPT !.connected = FALSE], None, read)
            [] OTHER -> Ok(c, None, read)

\* variant of okx_on_text that treats a failed publish as a transport fault
okx_on_text_sink_fatal(c, parsed, pubOk, seen) ==
  IF parsed.ok
    THEN IF c.redis_publisher /\ ~pubOk
           THEN Err([c EXCEPT !.connected = FALSE],
                    seen \o publish_event(parsed.event, pubOk))
           ELSE Ok(c, Some(parsed.event),
                   seen \o (IF c.redis_publisher
                              THEN publish_event(parsed.event, pubOk) ELSE <<>>))
    ELSE Ok(c, None, seen)

\* the Some(Ok(Message::Text(text))) arm of OKX's recv_event
okx_on_text(c, parsed, pubOk, seen) ==
  IF parsed.ok
    THEN Ok(c, Some(parsed.event),
            seen \o (IF c.redis_publisher THEN publish_event(parsed.event, pubOk)
                     ELSE <<>>))
    ELSE Ok(c, None, seen)

\* script: what ws.next() hands over, read by read; seen: the effects of
\* the calls that have recursed into this one
RECURSIVE okx_recv_event(_, _, _, _)
okx_recv_event(c, script, now, seen) ==
  IF ~c.connected \/ c.ws = None THEN Ok(c, None, seen)
  ELSE LET item == Head(script)
           read == Append(seen, FxRead(item.k))
       IN CASE item.k = "text" ->
                 okx_on_text(c, okx_parse_message(c, item.frame.msg, now),
                                 item.okay, read)
            [] item.k = "ping" ->
                 IF ~item.okay THEN Err(dead(c), Append(read, FxPong(item.frame.msg, FALSE)))
                 ELSE okx_recv_event(c, Tail(script), now,
                                         Append(read, FxPong(item.frame.msg, TRUE)))
            [] item.k = "pong" -> okx_recv_event(c, Tail(script), now, read)
            [] item.k = "close" -> Ok([dead(c) EXCEPT !.connected = FALSE], None, read)
            [] item.k = "err" -> Err([dead(c) EXCEPT !.connected = FALSE], read)
            [] item.k = "eof" -> Ok([dead(c) EXCEPT !.connected = FALSE], None, read)
            [] OTHER -> Ok(c, None, read)

\* ------------------------------------------------- the Exchange trait object
connect(c, net) ==
  IF c.exchange_type = Binance THEN binance_connect(c, net) ELSE okx_connect(c, net)
disconnect(c, closeOk) ==
  IF c.exchange_type = Binance THEN binance_disconnect(c, closeOk)
  ELSE okx_disconnect(c, closeOk)
\* net: the outcome of connect_async, io: that of the other transport call
\* (the close of the old stream for Binance, the send for OKX)
subscribe(c, subscriptions, net, io) ==
  IF c.exchange_type = Binance THEN binance_subscribe(c, subscriptions, io, net)
  ELSE okx_subscribe(c, subscriptions, net, io)
unsubscribe(c, subscriptions) ==
  IF c.exchange_type = Binance THEN binance_unsubscribe(c, subscriptions)
  ELSE okx_unsubscribe(c, subscriptions)
recv_event(c, script, now) ==
  IF c.exchange_type = Binance THEN binance_recv_event(c, script, now, <<>>)
  ELSE okx_recv_event(c, script, now, <<>>)

\* ---------------------------------------------- a recv_event that is dropped
\* tokio::select! drops the futures of the branches that did not win.  The
\* future of recv_event can be dropped only where it waits: at ws.next(), at
\* the send of a pong, at publish_event.

\* the command of a call that was dropped while it waited had been handed
\* over to the connection all the same
FxQueued(fx) == Fx("queued", fx.v)

\* whether recv_event() waits again after it has read `item`, before it
\* reads the next frame or returns
awaits_after(c, item, now) ==
  CASE item.k = "ping" -> TRUE
    [] item.k = "text" ->
         /\ c.redis_publisher
         /\ IF c.exchange_type = Binance
              THEN binance_parse_message(c, item.frame.msg, now).ok
              ELSE okx_parse_message(c, item.frame.msg, now).ok
    [] OTHER -> FALSE

\* the event that the text frame of `item` parses to
event_of(c, item, now) ==
  IF c.exchange_type = Binance
    THEN binance_parse_message(c, item.frame.msg, now).event
    ELSE okx_parse_message(c, item.frame.msg, now).event

\* What a recv_event() has done when its future is dropped.  script: what
\* ws.next() has handed over by then.  The call waits at the await that
\* follows the last frame of the script - the send of the pong after a ping,
\* the publish after a text frame that parsed - or at ws.next() when the
\* script ends with a pong or is empty.  The frames before the last are pings
\* it has answered and pongs.  okay of the last frame: whether the command of
\* the pending call had been handed over when the future was dropped.
RECURSIVE recv_event_dropped(_, _, _, _)
recv_event_dropped(c, script, now, seen) ==
  IF script = <<>> THEN Ok(c, None, seen)
  ELSE LET item == Head(script)
           read == Append(seen, FxRead(item.k))
       IN IF Tail(script) # <<>>
            THEN recv_event_dropped(c, Tail(script), now,
                   IF item.k = "ping"
                     THEN Append(read, FxPong(item.frame.msg, TRUE)) ELSE read)
            ELSE CASE item.k = "ping" ->
                        Ok(c, None,
                           IF item.okay
                             THEN Append(read, FxQueued(FxPong(item.frame.msg, TRUE)))
                             ELSE read)
                   [] item.k = "text" ->
                        Ok(c, None,
                           IF item.okay
                             THEN read \o <<FxQueued(FxPublish(
                                    prepare_event(event_of(c, item, now)),
                                    event_of(c, item, now), TRUE))>>
                             ELSE read)
                   [] OTHER -> Ok(c, None, read)

is_connected(c) == c.connected

\* ----------------------------------------------------- frames on the wire
\* A text frame is its JSON reading (None when the text is not JSON) and a
\* label that says what was put on the wire: "data" for a frame with every
\* field its parser asks for, "malformed" for text that is not JSON, that
\* lacks or has an unknown "e" or channel, that lacks a field its parser
\* asks for, or that is a subscription acknowledgment.
Frame(label, msg) == [label |-> label, msg |-> msg]
Without(o, key) == [k \in (DOMAIN o) \ {key} |-> o[k]]

D_price == <<"5","0","0","0","0",".","5">>
D_qty == <<"0",".","0","0","1">>
D_bid == <<"2","5",".","3","5","1","9","0","0","0","0">>
D_ask == <<"2","5",".","3","6","5","2","0","0","0","0">>
S_unknown == <<"f","o","r","c","e","O","r","d","e","r">>

AggTradeObj ==
  [e |-> JStr(S_aggTrade), E |-> JNum(101), s |-> JStr(BTCUSDT), a |-> JNum(12345),
   p |-> JStr(D_price), q |-> JStr(D_qty), T |-> JNum(100), m |-> JBool(TRUE)]
KlineObj ==
  [e |-> JStr(S_kline), E |-> JNum(101), s |-> JStr(ETHUSDT),
   k |-> JObj([i |-> JStr(<<"1","m">>), t |-> JNum(60), T |-> JNum(119),
               o |-> JStr(D_bid), h |-> JStr(D_ask), l |-> JStr(D_bid),
               c |-> JStr(D_ask), v |-> JStr(D_qty), x |-> JBool(FALSE)])]
DepthObj ==
  [e |-> JStr(S_depthUpdate), E |-> JNum(101), s |-> JStr(BTCUSDT),
   b |-> JArr(<<JArr(<<JStr(D_bid), JStr(D_qty)>>)>>),
   a |-> JArr(<<JArr(<<JStr(D_ask), JStr(D_qty)>>)>>)]
BookTickerObj ==
  [e |-> JStr(S_bookTicker), u |-> JNum(400), s |-> JStr(BTCUSDT),
   b |-> JStr(D_bid), B |-> JStr(D_qty), a |-> JStr(D_ask), A |-> JStr(D_qty),
   T |-> JNum(100), E |-> JNum(101)]

BinanceDataFrames ==
  {Frame("data", Some(JObj(o))) : o \in {AggTradeObj, KlineObj, DepthObj, BookTickerObj}}

BinanceMalformedFrames ==
  {Frame("malformed", None)}
  \cup {Frame("malformed", Some(JObj(o))) :
          o \in {Without(BookTickerObj, "e"),
                 [AggTradeObj EXCEPT !.e = JStr(S_unknown)],
                 [AggTradeObj EXCEPT !.e = JNum(1)],
                 Without(AggTradeObj, "p"),
                 [AggTradeObj EXCEPT !.q = JStr(S_unknown)],
                 Without(KlineObj, "k"),
                 Without(DepthObj, "s"),
                 Without(BookTickerObj, "b")}}

S_trades == <<"t","r","a","d","e","s">>
S_candle1m == <<"p","u","b","l","i","c","-","c","a","n","d","l","e","1","m">>
S_tickers_ch == <<"t","i","c","k","e","r","s">>
S_books_ch == <<"b","o","o","k","s">>
S_funding == <<"f","u","n","d","i","n","g","-","r","a","t","e">>
S_BTC_USDT == <<"B","T","C","-","U","S","D","T">>
D_ts == <<"6","0","0","0","0">>

OkxArg(channel) == JObj([channel |-> JStr(channel), instId |-> JStr(S_BTC_USDT)])

OkxTradeObj ==
  [arg |-> OkxArg(S_trades),
   data |-> JArr(<<JObj([px |-> JStr(D_price), sz |-> JStr(D_qty),
                         ts |-> JNum(100), side |-> JStr(S_sell)])>>)]
OkxCandleObj ==
  [arg |-> OkxArg(S_candle1m),
   data |-> JArr(<<JArr(<<JStr(D_ts), JStr(D_bid), JStr(D_ask), JStr(D_bid),
                          JStr(D_ask), JStr(D_qty), JStr(D_qty)>>)>>)]
OkxTickerObj ==
  [arg |-> OkxArg(S_tickers_ch),
   data |-> JArr(<<JObj([bidPx |-> JStr(D_bid), bidSz |-> JStr(D_qty),
                         askPx |-> JStr(D_ask), askSz |-> JStr(D_qty),
                         ts |-> JNum(100)])>>)]
OkxBooksObj ==
  [arg |-> OkxArg(S_books_ch), data |-> JArr(<<JObj([ts |-> JNum(100)])>>)]

OkxDataFrames ==
  {Frame("data", Some(JObj(o))) : o \in {OkxTradeObj, OkxCandleObj, OkxTickerObj, OkxBooksObj}}

OkxMalformedFrames ==
  {Frame("malformed", None)}
  \cup {Frame("malformed", Some(JObj(o))) :
          o \in {[event |-> JStr(S_subscribe), arg |-> OkxArg(S_trades)],
                 Without(OkxTradeObj, "arg"),
                 [OkxTradeObj EXCEPT !.arg = OkxArg(S_funding)],
                 [OkxTradeObj EXCEPT !.arg = JObj([instId |-> JStr(S_BTC_USDT)])],
                 [OkxTradeObj EXCEPT !.data = JArr(<<JObj([sz |-> JStr(D_qty),
                                  ts |-> JNum(100), side |-> JStr(S_sell)])>>)],
                 [OkxCandleObj EXCEPT !.data = JArr(<<>>)],
                 Without(OkxTickerObj, "data")}}

FramesOf(exchange_type) ==
  IF exchange_type = Binance THEN BinanceDataFrames \cup BinanceMalformedFrames
  ELSE OkxDataFrames \cup OkxMalformedFrames

\* ------------------------------------------------------------------- state
VARIABLES
  clients,       \* ExchangeType -> the adapter of that exchange
  exchange_map,  \* the configured exchanges in the map's iteration order
  pc,            \* where run_gateway is: "connect", "subscribe", "loop",
                 \* "failed"; "adapter" when the trait is driven directly,
                 \* "fn" when one function is called alone
  idx,           \* position of the start-up loops in exchange_map
  err,           \* the exchange that the returned error's context names
  drainIdx,      \* adapters the pending event drain has already polled
  attempts,      \* ExchangeType -> failed reconnects in a row (saturating)
  last,          \* the branch of the loop that ran last
  calls          \* the trait calls of the last step (of the whole start-up
                 \* while it runs), in order, with what each did

vars == <<clients, exchange_map, pc, idx, err, drainIdx, attempts, last, calls>>

Call(op, pre, arg, r) ==
  [op |-> op, ex |-> pre.exchange_type, arg |-> arg, pre |-> pre,
   post |-> r.c, ok |-> r.ok, ret |-> r.ret, fx |-> r.fx]

\* ------------------------------------------------------------------ inputs
Clock == {1700}

\* the payload of a ping that carries one
Payload == [label |-> "payload", msg |-> <<"k">>]

Controls == {Item("ping", Payload, TRUE), Item("pong", NoFrame, TRUE)}

Terminals(frames) ==
  {Item("text", f, TRUE) : f \in frames}
  \cup {Item("text", f, FALSE) : f \in {g \in frames : g.label = "data"}}
  \cup {Item("ping", NoFrame, FALSE)}
  \cup {Item(k, NoFrame, TRUE) : k \in {"close", "err", "eof", "other"}}

\* what a call of recv_event may read: up to MaxPings frames that it
\* swallows, then one on which it returns
Scripts(frames) ==
  UNION {{ctl \o <<t>> : ctl \in [1..n -> Controls], t \in Terminals(frames)} :
           n \in 0..MaxPings}

\* what a recv_event() whose future is dropped may have read: up to MaxPings
\* frames that it has swallowed, and then nothing more (it waits for a
\* frame), or a ping, or a text frame
DroppedScripts(frames) ==
  UNION {{ctl \o <<>> : ctl \in [1..n -> Controls]}
           \cup {Append(ctl, Item("ping", Payload, h)) :
                   ctl \in [1..n -> Controls], h \in BOOLEAN}
           \cup {Append(ctl, Item("text", f, h)) :
                   ctl \in [1..n -> Controls], f \in frames, h \in BOOLEAN} :
           n \in 0..MaxPings}

\* a stream whose transport has failed yields an error or the end of the
\* stream; an adapter that does not read gets no frame
ScriptsFor(c, frames) ==
  IF ~c.connected \/ c.ws = None THEN {<<>>}
  ELSE IF ~c.ws[1].alive
         THEN {<<Item("err", NoFrame, TRUE)>>, <<Item("eof", NoFrame, TRUE)>>}
         ELSE Scripts(frames)

\* the frames the gateway runs see: a data frame and a malformed one each
GatewayFrames(exchange_type) ==
  IF exchange_type = Binance
    THEN {Frame("data", Some(JObj(AggTradeObj))),
          Frame("malformed", Some(JObj(Without(BookTickerObj, "e"))))}
    ELSE {Frame("data", Some(JObj(OkxTickerObj))),
          Frame("malformed", Some(JObj([event |-> JStr(S_subscribe),
                                        arg |-> OkxArg(S_trades)])))}

\* the subscription lists the trait is called with directly
SubLists ==
  {<<>>,
   <<Subscription(BTCUSDT, "Kline", None)>>,
   <<Subscription(ETHUSDT, "Depth", Some("OneDay")),
     Subscription(BTCUSDT, "AggTrade", None),
     Subscription(ETHUSDT, "Kline", Some("OneHour")),
     Subscription(BTCUSDT, "BookTicker", None)>>}

new_client(exchange_type, testnet) ==
  IF exchange_type = Binance THEN BinanceClient_new(testnet)
  ELSE OkxClient_new(testnet)

\* ------------------------------------------------ the trait, driven directly
\* One adapter, built with or without a publisher, on which the methods of
\* the Exchange trait are called in any order.
AdapterInit ==
  /\ \E e \in ExchangeType, testnet \in BOOLEAN, publisher \in BOOLEAN :
       /\ exchange_map = <<e>>
       /\ clients = [x \in ExchangeType |->
                       IF publisher THEN with_redis_publisher(new_client(x, testnet))
                       ELSE new_client(x, testnet)]
  /\ pc = "adapter"
  /\ idx = 0
  /\ err = None
  /\ drainIdx = 0
  /\ attempts = [x \in ExchangeType |-> 0]
  /\ last = "init"
  /\ calls = <<>>

Called(op, arg, r) ==
  LET e == exchange_map[1] IN
  /\ pc = "adapter"
  /\ clients' = [clients EXCEPT ![e] = r.c]
  /\ calls' = <<Call(op, clients[e], arg, r)>>
  /\ last' = op
  /\ UNCHANGED <<exchange_map, pc, idx, err, drainIdx, attempts>>

CallConnect ==
  \E net \in BOOLEAN :
    Called("connect", None, connect(clients[exchange_map[1]], net))

CallDisconnect ==
  \E closeOk \in BOOLEAN :
    Called("disconnect", None, disconnect(clients[exchange_map[1]], closeOk))

CallSubscribe ==
  \E subs \in SubLists, net \in BOOLEAN, io \in BOOLEAN :
    Called("subscribe", subs, subscribe(clients[exchange_map[1]], subs, net, io))

CallUnsubscribe ==
  \E subs \in SubLists :
    Called("unsubscribe", subs, unsubscribe(clients[exchange_map[1]], subs))

CallRecvEvent ==
  \E script \in ScriptsFor(clients[exchange_map[1]], FramesOf(exchange_map[1])),
     now \in Clock :
    Called("recv_event", script, recv_event(clients[exchange_map[1]], script, now))

AdapterNext ==
  \/ CallConnect
  \/ CallDisconnect
  \/ CallSubscribe
  \/ CallUnsubscribe
  \/ CallRecvEvent

AdapterSpec == AdapterInit /\ [][AdapterNext]_vars

\* ------------------------------------------------------------- run_gateway
\* config.exchanges as the HashMap iterates it: each exchange at most once,
\* in an order that the map fixes when it is built
ExchangeOrders ==
  {<<Binance>>, <<Okx>>, <<Binance, Okx>>, <<Okx, Binance>>}

\* `let subscriptions = create_subscriptions(&config.symbols)`
subscriptions == create_subscriptions(ConfigSymbols)

Init ==
  /\ \E order \in ExchangeOrders, testnet \in BOOLEAN :
       /\ exchange_map = order
       /\ clients = [x \in ExchangeType |->
                       with_redis_publisher(new_client(x, testnet))]
  /\ pc = "connect"
  /\ idx = 1
  /\ err = None
  /\ drainIdx = 0
  /\ attempts = [x \in ExchangeType |-> 0]
  /\ last = "init"
  /\ calls = <<>>

\* variant of StartupConnect that logs a failed connect and goes on
StartupConnect_lenient ==
  /\ pc = "connect"
  /\ \E net \in BOOLEAN, e \in {exchange_map[idx]} :
       \E r \in {connect(clients[e], net)} :
         /\ clients' = [clients EXCEPT ![e] = r.c]
         /\ calls' = Append(calls, Call("connect", clients[e], None, r))
  /\ IF idx = Len(exchange_map)
       THEN pc' = "subscribe" /\ idx' = 1
       ELSE pc' = pc /\ idx' = idx + 1
  /\ last' = "startup"
  /\ UNCHANGED <<exchange_map, err, drainIdx, attempts>>

\* one pass of the "Connect to all exchanges" loop; a failure returns from
\* run_gateway with the context "Failed to connect to <exchange>"
StartupConnect ==
  /\ pc = "connect"
  /\ \E net \in BOOLEAN, e \in {exchange_map[idx]} :
       \E r \in {connect(clients[e], net)} :
         /\ clients' = [clients EXCEPT ![e] = r.c]
         /\ calls' = Append(calls, Call("connect", clients[e], None, r))
         /\ IF ~r.ok THEN pc' = "failed" /\ err' = Some(e) /\ idx' = idx
            ELSE /\ err' = err
                 /\ IF idx = Len(exchange_map)
                      THEN pc' = "subscribe" /\ idx' = 1
                      ELSE pc' = pc /\ idx' = idx + 1
  /\ last' = "startup"
  /\ UNCHANGED <<exchange_map, drainIdx, attempts>>

\* one pass of the "Subscribe to market data" loop; an Err is logged only
StartupSubscribe ==
  /\ pc = "subscribe"
  /\ \E net \in BOOLEAN, io \in BOOLEAN, e \in {exchange_map[idx]} :
       \E r \in {subscribe(clients[e], subscriptions, net, io)} :
         /\ clients' = [clients EXCEPT ![e] = r.c]
         /\ calls' = Append(calls, Call("subscribe", clients[e], subscriptions, r))
  /\ IF idx = Len(exchange_map)
       THEN pc' = "loop" /\ idx' = 0
       ELSE pc' = pc /\ idx' = idx + 1
  /\ last' = "startup"
  /\ UNCHANGED <<exchange_map, err, drainIdx, attempts>>

\* the warn! lines of the ping_interval branch
RECURSIVE health_warnings(_, _)
health_warnings(order, cl) ==
  IF order = <<>> THEN <<>>
  ELSE (IF ~is_connected(cl[Head(order)])
          THEN <<Call("warn", cl[Head(order)], None, Ok(cl[Head(order)], None, <<>>))>>
          ELSE <<>>)
       \o health_warnings(Tail(order), cl)

\* variant of HealthTick after which the drain goes on where it was
HealthTick_resume ==
  /\ pc = "loop"
  /\ calls' = health_warnings(exchange_map, clients)
  /\ last' = "health"
  /\ UNCHANGED <<clients, exchange_map, pc, idx, err, drainIdx, attempts>>

\* ping_interval.tick() wins the select: the pending drain is dropped
HealthTick ==
  /\ pc = "loop"
  /\ calls' = health_warnings(exchange_map, clients)
  /\ drainIdx' = 0
  /\ last' = "health"
  /\ UNCHANGED <<clients, exchange_map, pc, idx, err, attempts>>

\* variant of reconnect_one that leaves a reconnected adapter unsubscribed
reconnect_one_no_resubscribe(c, net, net2, io) ==
  LET connected(r) == [c |-> r.c, calls |-> <<Call("connect", c, None, r)>>]
  IN IF ~is_connected(c) THEN connected(connect(c, net))
     ELSE [c |-> c, calls |-> <<>>]

\* the body of the reconnect branch for one adapter
\* r: what connect() gave, sub: what the subscribe() after it gave
reconnect_one(c, net, net2, io) ==
  LET resubscribed(r, sub) ==
        [c |-> sub.c,
         calls |-> <<Call("connect", c, None, r),
                     Call("subscribe", r.c, subscriptions, sub)>>]
      connected(r) ==
        IF ~r.ok THEN [c |-> r.c, calls |-> <<Call("connect", c, None, r)>>]
        ELSE resubscribed(r, subscribe(r.c, subscriptions, net2, io))
  IN IF ~is_connected(c) THEN connected(connect(c, net))
     ELSE [c |-> c, calls |-> <<>>]

\* the outcomes of the transport calls that one adapter's turn in the
\* reconnect branch makes: that of connect_async when the adapter is not
\* connected and, after a success, those of the calls of subscribe
ReconnectInputs(c) ==
  IF is_connected(c) THEN {[net |-> TRUE, net2 |-> TRUE, io |-> TRUE]}
  ELSE {[net |-> FALSE, net2 |-> TRUE, io |-> TRUE]}
       \cup {[net |-> TRUE, net2 |-> n, io |-> i] : n \in BOOLEAN, i \in BOOLEAN}

\* the `for` loop of the reconnect branch over the adapters of `order`: the
\* adapters it leaves and the calls it has made, after those of `log`
RECURSIVE reconnect_each(_, _, _, _)
reconnect_each(order, cl, log, inp) ==
  IF order = <<>> THEN [clients |-> cl, calls |-> log]
  ELSE LET e == Head(order)
           rest(one) == reconnect_each(Tail(order), [cl EXCEPT ![e] = one.c],
                                       log \o one.calls, inp)
       IN rest(reconnect_one(cl[e], inp[e].net, inp[e].net2, inp[e].io))

\* failed reconnects in a row, after a tick that made `log`'s calls
attempts_after(att, e, log) ==
  LET tried == {i \in 1..Len(log) : log[i].op = "connect" /\ log[i].ex = e} IN
  IF tried = {} THEN att
  ELSE IF \E i \in tried : log[i].ok THEN 0
  ELSE IF att < MaxAttempts THEN att + 1 ELSE att

Range(seq) == {seq[i] : i \in 1..Len(seq)}

\* the reconnect branch when its `for` loop visits the adapters of `order`
reconnect_over(order) ==
  /\ pc = "loop"
  /\ \E inp \in {f \in [Range(order) -> [net : BOOLEAN, net2 : BOOLEAN, io : BOOLEAN]] :
                    \A x \in Range(order) : f[x] \in ReconnectInputs(clients[x])} :
       \E r \in {reconnect_each(order, clients, <<>>, inp)} :
         /\ clients' = r.clients
         /\ calls' = r.calls
         /\ attempts' = [x \in ExchangeType |->
                           attempts_after(attempts[x], x, r.calls)]
  /\ drainIdx' = 0
  /\ last' = "reconnect"
  /\ UNCHANGED <<exchange_map, pc, idx, err>>

\* variant of ReconnectTick that gives an adapter up after MaxAttempts failures
ReconnectTick_capped ==
  reconnect_over(SelectSeq(exchange_map, LAMBDA x : attempts[x] < MaxAttempts))

\* reconnect_interval.tick() wins the select: the pending drain is dropped
ReconnectTick == reconnect_over(exchange_map)

\* the event drain polls its next adapter; after the last one the select
\* arm completes and the loop starts the drain again
Drain(e) ==
  /\ pc = "loop"
  /\ last # "dropped"
  /\ exchange_map[drainIdx + 1] = e
  /\ \E script \in ScriptsFor(clients[e], GatewayFrames(e)), now \in Clock :
       \E r \in {recv_event(clients[e], script, now)} :
         /\ clients' = [clients EXCEPT ![e] = r.c]
         /\ calls' = <<Call("recv_event", clients[e], script, r)>>
  /\ drainIdx' = IF drainIdx + 1 = Len(exchange_map) THEN 0 ELSE drainIdx + 1
  /\ last' = "drain"
  /\ UNCHANGED <<exchange_map, pc, idx, err, attempts>>

\* A tick wins the select while the drain waits inside the recv_event() of
\* exchange e: the future of the drain is dropped where it waits, and the
\* body of the tick's branch runs next.
DropDrain(e) ==
  /\ pc = "loop"
  /\ last # "dropped"
  /\ exchange_map[drainIdx + 1] = e
  /\ clients[e].connected
  /\ clients[e].ws # None
  /\ clients[e].ws[1].alive
  /\ \E script \in DroppedScripts(GatewayFrames(e)), now \in Clock :
       /\ IF script = <<>> THEN TRUE
          ELSE IF script[Len(script)].k = "pong" THEN TRUE
          ELSE awaits_after(clients[e], script[Len(script)], now)
       /\ \E r \in {recv_event_dropped(clients[e], script, now, <<>>)} :
            /\ clients' = [clients EXCEPT ![e] = r.c]
            /\ calls' = <<Call("recv_event dropped", clients[e], script, r)>>
  /\ last' = "dropped"
  /\ UNCHANGED <<exchange_map, pc, idx, err, drainIdx, attempts>>

DrainStep == \E e \in ExchangeType : Drain(e)

DropStep == \E e \in ExchangeType : DropDrain(e)

Next ==
  \/ StartupConnect
  \/ StartupSubscribe
  \/ HealthTick
  \/ ReconnectTick
  \/ DrainStep
  \/ DropStep

Spec == Init /\ [][Next]_vars

\* The timers keep firing, and a stream that is polled again and again
\* hands over a frame in the end.
FairSpec ==
  /\ Spec
  /\ WF_vars(StartupConnect)
  /\ WF_vars(StartupSubscribe)
  /\ WF_vars(HealthTick)
  /\ WF_vars(ReconnectTick)
  /\ \A e \in ExchangeType : SF_vars(Drain(e))

\* The timers keep firing and start-up runs to its end; nothing is assumed
\* of the streams: a recv_event() may wait for a frame forever.
TickSpec ==
  /\ Spec
  /\ WF_vars(StartupConnect)
  /\ WF_vars(StartupSubscribe)
  /\ WF_vars(HealthTick)
  /\ WF_vars(ReconnectTick)

\* ------------------------------------------- the functions, called alone
\* One call of one function of the gateway on one input: the initial state
\* holds the input, the step applies the function and logs what it gave.
MaxSymLen == 6

Alphabet == {"B", "U", "S", "D", "T"}

\* the symbols the conversions are applied to: every text over Alphabet of
\* up to MaxSymLen characters, and the two symbols of the default config
SymbolTexts ==
  UNION {[1..n -> Alphabet] : n \in 1..MaxSymLen} \cup {BTCUSDT, ETHUSDT}

\* values of config.symbols
SymbolLists ==
  {<<>>, <<BTCUSDT>>, <<ETHUSDT, BTCUSDT>>, <<BTCUSDT, ETHUSDT, BTCUSDT>>}

\* decimal texts as the exchanges send them, each with the value it denotes
DecimalTexts ==
  {[text |-> D_price, value |-> Decimal(500005, 1)],
   [text |-> D_qty, value |-> Decimal(1, 3)],
   [text |-> D_bid, value |-> Decimal(253519, 4)],
   [text |-> D_ask, value |-> Decimal(253652, 4)],
   [text |-> <<"7">>, value |-> Decimal(7, 0)],
   [text |-> <<"1","0",".","0">>, value |-> Decimal(10, 0)]}

\* aggTrade frames with every field that Binance sends, the test's frame
\* (with its "f" and "l") among them
AggTradeFrames ==
  {JObj([AggTradeObj EXCEPT !.s = JStr(sym), !.a = JNum(id), !.m = JBool(m),
                            !.p = JStr(p.text), !.q = JStr(q.text)] @@ more) :
     sym \in {BTCUSDT, ETHUSDT}, id \in {0, 12345}, m \in BOOLEAN,
     p \in DecimalTexts, q \in DecimalTexts,
     more \in {<<>>, [f |-> JNum(100), l |-> JNum(200)]}}

\* aggTrade frames that carry p, q, s, m, a and E, and no T
AggTradeFramesNoT ==
  {JObj(Without([AggTradeObj EXCEPT !.s = JStr(sym), !.m = JBool(m), !.E = JNum(E)], "T")) :
     sym \in {BTCUSDT, ETHUSDT}, m \in BOOLEAN, E \in {101, 1700}}

\* book-ticker frames with s, b, B, a and A: with the fields of the test's
\* frame (u, s, b, B, a, A, T, E), and with an "e" besides
BookTickerFrames ==
  {JObj([o EXCEPT !.s = JStr(sym), !.b = JStr(b.text), !.a = JStr(a.text)]) :
     o \in {BookTickerObj, Without(BookTickerObj, "e")},
     sym \in {BTCUSDT, ETHUSDT}, b \in DecimalTexts, a \in DecimalTexts}

\* entries of the b and a arrays of a depthUpdate frame: [price, qty] pairs
\* of decimal strings, and entries that are something else - a string, an
\* array of one element, a pair with a number or with a text that is no
\* decimal in it, an empty array - and a pair followed by a third element
DepthEntries ==
  {JArr(<<JStr(D_bid), JStr(D_qty)>>),
   JArr(<<JStr(<<"7">>), JStr(<<"1","0",".","0">>)>>),
   JStr(D_bid),
   JArr(<<JStr(D_bid)>>),
   JArr(<<JNum(25), JStr(D_qty)>>),
   JArr(<<JStr(D_bid), JStr(<<"1",".","2",".","3">>)>>),
   JArr(<<JStr(<<"a","b","c">>), JStr(D_qty)>>),
   JArr(<<>>),
   JArr(<<JStr(D_ask), JStr(D_qty), JStr(<<"7">>)>>)}

\* what a depthUpdate frame may carry under "b" or "a": nothing (None), a
\* value that is no array, or an array of up to MaxLevels entries
MaxLevels == 2

DepthSides ==
  {None, Some(JStr(D_bid)), Some(JNum(0)), Some(JObj([p |-> JStr(D_bid)]))}
  \cup UNION {{Some(JArr(l \o <<>>)) : l \in [1..n -> DepthEntries]} : n \in 0..MaxLevels}

\* the sides paired with every side on the other key of the frame
FewSides ==
  {None, Some(JStr(D_bid)),
   Some(JArr(<<JArr(<<JStr(D_ask), JStr(D_qty)>>), JStr(D_ask),
               JArr(<<JStr(<<"7">>), JStr(D_qty)>>)>>))}

\* the frame of DepthObj with `b` under "b" and `a` under "a"
DepthFrame(b, a) ==
  JObj((IF b = None THEN <<>> ELSE [b |-> b[1]])
       @@ (IF a = None THEN <<>> ELSE [a |-> a[1]])
       @@ Without(Without(DepthObj, "b"), "a"))

\* depthUpdate frames that carry s and E
DepthFrames ==
  {DepthFrame(b, a) : b \in DepthSides, a \in FewSides}
  \cup {DepthFrame(b, a) : b \in FewSides, a \in DepthSides}

\* events of every kind as the parsers of both adapters build them, for
\* more than one symbol
Events ==
  {[ev EXCEPT !.symbol = sym] :
     ev \in {binance_parse_message(BinanceClient_new(FALSE), f.msg, 1700).event :
               f \in BinanceDataFrames}
            \cup {okx_parse_message(OkxClient_new(FALSE), f.msg, 1700).event :
                    f \in OkxDataFrames},
     sym \in {BTCUSDT, ETHUSDT}}

\* texts of millisecond timestamps, each with the number it denotes
TsTexts ==
  {[text |-> <<"0">>, value |-> 0],
   [text |-> D_ts, value |-> 60000],
   [text |-> <<"1","7","0","0","0","0","0","0","0","0">>, value |-> 1700000000]}

\* the elements 1..6 of a candle array: open, high, low, close, vol, volCcy
CandleTails ==
  {<<JStr(D_bid), JStr(D_ask), JStr(<<"7">>), JStr(<<"1","0",".","0">>),
     JStr(D_qty), JStr(D_price)>>,
   <<JStr(D_price), JStr(D_price), JStr(D_qty), JStr(<<"7">>),
     JStr(D_bid), JStr(D_ask)>>}

\* where a candle frame can carry a confirm boolean next to the positional
\* array: nowhere, as a key of the frame, or as one more element of the array
ConfirmPlaces ==
  {[key |-> k, last |-> l] :
     k \in {None, Some(JBool(TRUE)), Some(JBool(FALSE))},
     l \in {None, Some(JBool(TRUE)), Some(JBool(FALSE))}}

\* candle frames of the channels build_subscription_msg asks for
OkxCandleFrames ==
  {JObj([arg |-> JObj([channel |-> JStr(S_public_candle \o as_str[iv]),
                       instId |-> JStr(inst)]),
         data |-> JArr(<<JArr(<<JStr(ts.text)>> \o tail \o place.last)>>)]
        @@ (IF place.key = None THEN <<>> ELSE [confirm |-> place.key[1]])) :
     iv \in KlineInterval, inst \in {S_BTC_USDT, <<"E","T","H","-","U","S","D","T">>},
     ts \in TsTexts, tail \in CandleTails, place \in ConfirmPlaces}

\* subscriptions of every kind, with and without an interval, for a symbol
\* in upper case and one in mixed case
SubscriptionInputs ==
  {Subscription(sym, kind, iv) :
     sym \in {BTCUSDT, <<"e","t","h","U","S","D","T">>}, kind \in DataType,
     iv \in {None} \cup {Some(x) : x \in KlineInterval}}

\* the lists build_stream_url and build_subscription_msg are given: of one
\* subscription and of two
SubscriptionLists ==
  {<<a>> : a \in SubscriptionInputs}
  \cup {<<a, b>> : a \in SubscriptionInputs, b \in SubscriptionInputs}

FnInput(fn, arg) == [op |-> "input", fn |-> fn, arg |-> arg]

FnInit ==
  /\ \/ \E l \in SymbolLists : calls = <<FnInput("create_subscriptions", l)>>
     \/ \E sym \in SymbolTexts : calls = <<FnInput("okx_symbol", sym)>>
     \/ \E ev \in Events : calls = <<FnInput("prepare_event", ev)>>
     \/ \E f \in AggTradeFrames \cup AggTradeFramesNoT \cup BookTickerFrames :
          calls = <<FnInput("parse_message", f)>>
     \/ \E f \in DepthFrames : calls = <<FnInput("parse_message", f)>>
     \/ \E f \in OkxCandleFrames : calls = <<FnInput("okx_parse_message", f)>>
     \/ \E l \in SubscriptionLists : calls = <<FnInput("build_stream_url", l)>>
     \/ \E l \in SubscriptionLists : calls = <<FnInput("build_subscription_msg", l)>>
  /\ clients = [x \in ExchangeType |-> new_client(x, FALSE)]
  /\ exchange_map = <<>>
  /\ pc = "fn"
  /\ idx = 0
  /\ err = None
  /\ drainIdx = 0
  /\ attempts = [x \in ExchangeType |-> 0]
  /\ last = "init"

\* the call fn(arg) has returned ret
FnCall(fn, arg, ret) == [op |-> fn, arg |-> arg, ret |-> ret]

Applied(fn, log) ==
  /\ pc = "fn"
  /\ Len(calls) = 1
  /\ calls[1].op = "input"
  /\ calls[1].fn = fn
  /\ calls' = log
  /\ last' = fn
  /\ UNCHANGED <<clients, exchange_map, pc, idx, err, drainIdx, attempts>>

ApplyCreateSubscriptions ==
  Applied("create_subscriptions",
          <<FnCall("create_subscriptions", calls[1].arg,
                   create_subscriptions(calls[1].arg))>>)

\* okx_symbol, and standard_symbol on what okx_symbol gave
ApplyOkxSymbol ==
  Applied("okx_symbol",
          <<FnCall("okx_symbol", calls[1].arg, okx_symbol(calls[1].arg)),
            FnCall("standard_symbol", okx_symbol(calls[1].arg),
                   standard_symbol(okx_symbol(calls[1].arg)))>>)

ApplyPrepareEvent ==
  Applied("prepare_event",
          <<FnCall("prepare_event", calls[1].arg, prepare_event(calls[1].arg))>>)

\* BinanceClient::parse_message on the text of the frame
ApplyParseMessage ==
  \E now \in Clock :
    Applied("parse_message",
            <<FnCall("parse_message", calls[1].arg,
                     binance_parse_message(clients[Binance], Some(calls[1].arg), now))>>)

\* OkxClient::parse_message on a frame of OKX
ApplyOkxParseMessage ==
  \E now \in Clock :
    Applied("okx_parse_message",
            <<FnCall("okx_parse_message", calls[1].arg,
                     okx_parse_message(clients[Okx], Some(calls[1].arg), now))>>)

ApplyBuildStreamUrl ==
  Applied("build_stream_url",
          <<FnCall("build_stream_url", calls[1].arg,
                   build_stream_url(clients[Binance], calls[1].arg))>>)

ApplyBuildSubscriptionMsg ==
  Applied("build_subscription_msg",
          <<FnCall("build_subscription_msg", calls[1].arg,
                   build_subscription_msg(calls[1].arg))>>)

FnNext ==
  \/ ApplyCreateSubscriptions
  \/ ApplyOkxSymbol
  \/ ApplyPrepareEvent
  \/ ApplyParseMessage
  \/ ApplyOkxParseMessage
  \/ ApplyBuildStreamUrl
  \/ ApplyBuildSubscriptionMsg

FnSpec == FnInit /\ [][FnNext]_vars

\* -------------------------------------------------------------- properties
CallsOf(op) == {i \in 1..Len(calls) : calls[i].op = op}
Holds(c) == c.ws # None
Usable(c) == c.ws # None /\ c.ws[1].alive
LastOf(seq) == seq[Len(seq)]
\* positions in fx at which a stream is released (closed or dropped)
Released(fx) == {j \in 1..Len(fx) : fx[j].k \in {"close", "drop"}}
Opened(fx) == {j \in 1..Len(fx) : fx[j].k = "open"}

\* C1: in a reconnect tick, every connect() that succeeds was made on an
\* adapter that was not connected, leaves is_connected() true, and is
\* followed at once - before any call on another adapter - by subscribe()
\* on the same adapter with the full list create_subscriptions(symbols).
C1_ReconnectResubscribes ==
  last = "reconnect" =>
    \A i \in CallsOf("connect") :
      calls[i].ok =>
        /\ ~calls[i].pre.connected
        /\ calls[i].post.connected
        /\ i + 1 <= Len(calls)
        /\ calls[i + 1].op = "subscribe"
        /\ calls[i + 1].ex = calls[i].ex
        /\ calls[i + 1].pre = calls[i].post
        /\ calls[i + 1].arg = create_subscriptions(ConfigSymbols)
        /\ Len(calls[i + 1].arg) > 0

C1_Witness ==
  /\ last = "reconnect"
  /\ Len(exchange_map) = 2
  /\ \E i \in CallsOf("connect") :
       /\ calls[i].ok
       /\ calls[i].ex = exchange_map[1]
       /\ calls[i + 1].op = "subscribe"
       /\ Len(calls) > i + 1

\* C2: in the steady state, an adapter that is flagged connected while it
\* holds no usable stream (none at all, or one whose transport failed)
\* eventually reads is_connected() = false, so that the reconnect tick
\* takes it up.
C2_FaultsRecovered ==
  \A e \in ExchangeType :
    [](pc = "loop" /\ clients[e].connected /\ ~Usable(clients[e])
         => <>(~clients[e].connected))

\* C3: every recv_event() that returns Err leaves is_connected() false.
C3_ErrClearsConnected ==
  \A i \in CallsOf("recv_event") : ~calls[i].ok => ~calls[i].post.connected

C5_DisconnectClears ==
  \A i \in CallsOf("disconnect") :
    /\ ~calls[i].post.connected
    /\ calls[i].post.ws = None
    /\ (~calls[i].pre.connected /\ calls[i].pre.ws = None
          => calls[i].ok /\ calls[i].post = calls[i].pre)

\* C6: a connect() that succeeds on an adapter that is connected and holds a
\* stream releases that stream before it opens the new one, and leaves the
\* adapter with exactly one open connection.
C6_ConnectClosesFirst ==
  \A i \in CallsOf("connect") :
    (calls[i].pre.connected /\ Holds(calls[i].pre) /\ calls[i].ok)
    => /\ Released(calls[i].fx) # {}
       /\ \A j \in Released(calls[i].fx), k \in Opened(calls[i].fx) : j < k
       /\ calls[i].post.socks = 1

\* C7: Binance subscribe() on an adapter that is connected and holds a
\* stream closes that stream before it opens anything; a subscribe() that
\* succeeds has opened exactly one connection, on the URL built from the
\* subscriptions of this call (one path segment per subscription, in order),
\* and leaves the adapter connected to it and to nothing else.
C7_BinanceSubscribeReconnects ==
  \A i \in CallsOf("subscribe") :
    calls[i].ex = Binance =>
      /\ (calls[i].pre.connected /\ Holds(calls[i].pre)
            => /\ calls[i].fx # <<>>
               /\ calls[i].fx[1].k = "close"
               /\ \A k \in Opened(calls[i].fx) : k > 1)
      /\ (calls[i].ok
            => /\ calls[i].post.connected
               /\ Holds(calls[i].post)
               /\ calls[i].post.ws[1].url = build_stream_url(calls[i].pre, calls[i].arg)
               /\ calls[i].post.ws[1].url[1] = calls[i].pre.ws_url
               /\ (calls[i].arg # <<>> =>
                     /\ Len(calls[i].post.ws[1].url) = Len(calls[i].arg) + 1
                     /\ \A k \in 1..Len(calls[i].arg) :
                          SubSeq(calls[i].post.ws[1].url[k + 1], 1,
                                 Len(calls[i].arg[k].symbol))
                            = to_lowercase(calls[i].arg[k].symbol))
               /\ Cardinality(Opened(calls[i].fx)) = 1
               /\ LastOf(calls[i].fx) \in {FxOpen(calls[i].post.ws[1].url), FxDrop}
               /\ calls[i].post.socks = 1)

C7_Witness ==
  \E i \in CallsOf("subscribe") :
    /\ calls[i].ex = Binance
    /\ calls[i].pre.connected
    /\ Holds(calls[i].pre)
    /\ calls[i].ok
    /\ Len(calls[i].arg) > 1
    /\ calls[i].pre.ws[1].url # calls[i].post.ws[1].url

\* the literal that starts the channel name of a subscription of this kind
ChannelHead ==
  "AggTrade" :> "public-trade:" @@ "Kline" :> "public-candle" @@
  "Depth" :> "public-books:" @@ "BookTicker" :> "public-tickers:"

\* C8: OKX subscribe() on an adapter whose is_connected() is true sends
\* exactly one control message on the stream it has, a "subscribe" with one
\* args entry per subscription in the order given, and opens, closes and
\* drops no connection; an OKX subscribe() opens a connection only when the
\* adapter is not connected.
C8_OkxSubscribeSendsOnce ==
  \A i \in CallsOf("subscribe") :
    calls[i].ex = Okx =>
      /\ (calls[i].pre.connected
            => /\ Len(calls[i].fx) = 1
               /\ calls[i].fx[1].k = "send"
               /\ calls[i].fx[1].v.msg.op = "subscribe"
               /\ Len(calls[i].fx[1].v.msg.args) = Len(calls[i].arg)
               /\ \A k \in 1..Len(calls[i].arg) :
                    /\ calls[i].fx[1].v.msg.args[k].op = "subscribe"
                    /\ calls[i].fx[1].v.msg.args[k].channel[1]
                         = ChannelHead[calls[i].arg[k].data_type]
                    /\ calls[i].fx[1].v.msg.args[k].channel
                         = subscription_channel(calls[i].arg[k])
               /\ calls[i].post.ws[1].url = calls[i].pre.ws[1].url
               /\ calls[i].post.socks = calls[i].pre.socks)
      /\ (Opened(calls[i].fx) # {} => ~calls[i].pre.connected)

\* C9: a reconnect tick calls connect() on every configured adapter whose
\* is_connected() is false, whatever the count of failed attempts before
\* it, and a connect() that fails leaves the adapter disconnected.
C9_RetryForever ==
  [][last' = "reconnect" =>
       \A e \in Range(exchange_map) :
         ~clients[e].connected =>
           \E i \in 1..Len(calls') :
             /\ calls'[i].op = "connect"
             /\ calls'[i].ex = e
             /\ calls'[i].pre = clients[e]
             /\ (~calls'[i].ok =>
                   ~calls'[i].post.connected /\ ~clients'[e].connected)]_vars

C9_Witness ==
  /\ last = "reconnect"
  /\ \E e \in Range(exchange_map) :
       /\ attempts[e] = MaxAttempts
       /\ ~clients[e].connected
       /\ \E i \in CallsOf("connect") : calls[i].ex = e /\ ~calls[i].ok

\* C10: a connect() that fails during start-up ends run_gateway with an
\* error that names that exchange, after which run_gateway takes no step
\* (the loop is never entered); and every subscribe() comes after a
\* connect() of the same exchange that succeeded.
C10_StartupState ==
  /\ pc \in {"connect", "subscribe", "failed"} =>
       \A i \in CallsOf("connect") :
         ~calls[i].ok => /\ pc = "failed"
                         /\ i = Len(calls)
                         /\ err = Some(calls[i].ex)
  /\ pc = "failed" => calls # <<>> /\ LastOf(calls).op = "connect" /\ ~LastOf(calls).ok
  /\ \A i \in CallsOf("subscribe") :
       \E j \in 1..(i - 1) :
         calls[j].op = "connect" /\ calls[j].ex = calls[i].ex /\ calls[j].ok

C10_StartupConnectFatal ==
  /\ []C10_StartupState
  /\ [][pc # "failed"]_vars

C10_Witness ==
  /\ pc = "failed"
  /\ Len(exchange_map) = 2
  /\ err = Some(exchange_map[2])
  /\ clients[exchange_map[1]].connected
  /\ CallsOf("subscribe") = {}

\* C11: when the start-up subscribe loop has ended, the steady-state loop
\* is entered, subscribe() has been called on every configured exchange,
\* and every exchange whose subscribe() failed is left with is_connected()
\* true - the Binance adapter like the OKX adapter.
C11_SubscribeFailureKeepsConnected ==
  (pc = "loop" /\ last = "startup") =>
    /\ \A e \in Range(exchange_map) :
         \E i \in CallsOf("subscribe") : calls[i].ex = e
    /\ \A i \in CallsOf("subscribe") :
         ~calls[i].ok => /\ calls[i].post.connected
                         /\ clients[calls[i].ex].connected

\* positions in fx of the calls of the publisher
Published(fx) == {j \in 1..Len(fx) : fx[j].k = "publish"}

\* the channel that events of each kind have to go to
ChannelOfKind ==
  "AggTrade" :> "flash_arb:tick" @@ "Kline" :> "flash_arb:kline" @@
  "DepthUpdate" :> "flash_arb:depth" @@ "BookTicker" :> "flash_arb:ticker"

\* C12: in the gateway, a recv_event() that returns an event has made
\* exactly one publish call, for that event, on the channel of its kind.
C12_ReturnedEventPublishedOnce ==
  \A i \in CallsOf("recv_event") :
    calls[i].ret # None =>
      /\ Cardinality(Published(calls[i].fx)) = 1
      /\ \A j \in Published(calls[i].fx) :
           /\ calls[i].fx[j].v.event = calls[i].ret[1]
           /\ calls[i].fx[j].v.channel = ChannelOfKind[calls[i].ret[1].kind]

C12_Witness ==
  /\ last = "drain"
  /\ \E i \in CallsOf("recv_event") :
       /\ calls[i].ret # None
       /\ Len(calls[i].arg) > 1
       /\ \E j \in Published(calls[i].fx) : ~calls[i].fx[j].v.ok
       /\ calls[i].ex = Binance
       /\ Len(calls[i].pre.ws[1].url) > 1

\* C13: a recv_event() whose publish call fails makes that one publish call
\* and no other, returns Ok with the event, and leaves the adapter - its
\* stream, its connected flag and everything else - as it was.
C13_SinkFaultIsSoft ==
  \A i \in CallsOf("recv_event") :
    (\E j \in Published(calls[i].fx) : ~calls[i].fx[j].v.ok) =>
      /\ calls[i].ok
      /\ calls[i].ret # None
      /\ Cardinality(Published(calls[i].fx)) = 1
      /\ calls[i].post.ws = calls[i].pre.ws
      /\ calls[i].post.connected = calls[i].pre.connected
      /\ calls[i].post = calls[i].pre

C13_Witness ==
  \E i \in CallsOf("recv_event") :
    /\ calls[i].ex = Okx
    /\ calls[i].pre.connected
    /\ Usable(calls[i].pre)
    /\ calls[i].ret # None
    /\ calls[i].ret[1].kind = "Kline"
    /\ \E j \in Published(calls[i].fx) : ~calls[i].fx[j].v.ok

\* how many entries of seq satisfy Test
Count(seq, Test(_)) == Cardinality({i \in 1..Len(seq) : Test(seq[i])})

\* the seven kline intervals, as the exchanges spell them
SevenIntervals ==
  {<<"1","m">>, <<"5","m">>, <<"1","5","m">>, <<"3","0","m">>,
   <<"1","h">>, <<"4","h">>, <<"1","d">>}

\* C14: create_subscriptions(symbols) holds, for every symbol as often as it
\* is configured, one AggTrade, one Depth and one BookTicker subscription
\* and one Kline subscription for each of the intervals 1m, 5m, 15m, 30m,
\* 1h, 4h and 1d, and nothing else (ten subscriptions per symbol).
C14_FullProduct ==
  \A i \in CallsOf("create_subscriptions") :
    /\ Len(calls[i].ret) = 10 * Len(calls[i].arg)
    /\ \A k \in 1..Len(calls[i].arg) :
         LET sym == calls[i].arg[k]
             n == Count(calls[i].arg, LAMBDA x : x = sym)
         IN /\ \A kind \in {"AggTrade", "Depth", "BookTicker"} :
                 Count(calls[i].ret,
                       LAMBDA sub : sub = Subscription(sym, kind, None)) = n
            /\ \A iv \in SevenIntervals :
                 Count(calls[i].ret,
                       LAMBDA sub : /\ sub.symbol = sym
                                    /\ sub.data_type = "Kline"
                                    /\ sub.interval # None
                                    /\ as_str[sub.interval[1]] = iv) = n

\* whether text ends with suffix
EndsWith(text, suffix) ==
  /\ Len(text) >= Len(suffix)
  /\ SubSeq(text, Len(text) - Len(suffix) + 1, Len(text)) = suffix

\* text without its last n characters
DropLast(text, n) == SubSeq(text, 1, Len(text) - n)

\* C15: okx_symbol("BTCUSDT") is "BTC-USDT", okx_symbol("ETHUSDT") is
\* "ETH-USDT", and for every symbol BASE+"USDT" whose BASE contains no "USD"
\* okx_symbol gives BASE+"-USDT": one hyphen, before the quote asset.
C15_OneHyphenBeforeQuote ==
  \A i \in CallsOf("okx_symbol") :
    /\ calls[i].arg = BTCUSDT => calls[i].ret = <<"B","T","C","-","U","S","D","T">>
    /\ calls[i].arg = ETHUSDT => calls[i].ret = <<"E","T","H","-","U","S","D","T">>
    /\ (/\ EndsWith(calls[i].arg, <<"U","S","D","T">>)
        /\ ~Contains(DropLast(calls[i].arg, 4), <<"U","S","D">>))
       => calls[i].ret = DropLast(calls[i].arg, 4) \o <<"-","U","S","D","T">>

\* the symbols whose quote asset is exactly USDT or USD and which hold no
\* other occurrence of USD or USDT
QuoteOnce(s) ==
  \/ EndsWith(s, S_USDT) /\ ~Contains(DropLast(s, 4), S_USD)
  \/ EndsWith(s, S_USD) /\ ~Contains(DropLast(s, 3), S_USD)

\* the symbols with an occurrence of USD that is not the quote asset: it
\* neither ends the symbol nor begins a USDT that ends it
StrayUsd(s) ==
  \E k \in 1..(Len(s) - 3) :
    /\ SubSeq(s, k, k + 2) = S_USD
    /\ ~(k + 3 = Len(s) /\ s[k + 3] = "T")

\* call i+1 is standard_symbol applied to what okx_symbol returned in call i,
\* and it returns the symbol call i was given
RoundTrip(i) ==
  /\ i + 1 \in 1..Len(calls)
  /\ calls[i + 1].op = "standard_symbol"
  /\ calls[i + 1].arg = calls[i].ret
  /\ calls[i + 1].ret = calls[i].arg

\* C16: standard_symbol(okx_symbol(s)) = s for every hyphen-free symbol s
\* whose quote asset is exactly USDT or USD and which holds no other
\* occurrence of those substrings.
C16_RoundTripInClass ==
  \A i \in CallsOf("okx_symbol") : QuoteOnce(calls[i].arg) => RoundTrip(i)

\* C16 witness: BTCUSDT has been converted to a longer OKX symbol and back
C16_Witness ==
  /\ last = "okx_symbol"
  /\ \E i \in CallsOf("okx_symbol") :
       /\ calls[i].arg = BTCUSDT
       /\ QuoteOnce(calls[i].arg)
       /\ Len(calls[i].ret) > Len(BTCUSDT)
       /\ calls[i + 1].ret = BTCUSDT

\* C17, as stated: for a hyphen-free symbol s that holds USD or USDT as a
\* non-suffix substring, standard_symbol(okx_symbol(s)) differs from s.
C17_RoundTripFailsOutside ==
  \A i \in CallsOf("okx_symbol") :
    StrayUsd(calls[i].arg) => calls[i + 1].ret # calls[i].arg

\* C17, amended: for a hyphen-free symbol s that holds USD or USDT as a
\* non-suffix substring, okx_symbol(s) differs from s and
\* standard_symbol(okx_symbol(s)) is s again: the round trip holds outside
\* the class too.
C17_RoundTripHoldsOutside ==
  \A i \in CallsOf("okx_symbol") :
    StrayUsd(calls[i].arg) => /\ calls[i].ret # calls[i].arg
                              /\ ~Contains(calls[i].arg, <<"-">>)
                              /\ RoundTrip(i)

\* C17 witness: a symbol with a stray USD before its USD quote has made the
\* round trip, with hyphens in between
C17_Witness ==
  /\ last = "okx_symbol"
  /\ \E i \in CallsOf("okx_symbol") :
       /\ StrayUsd(calls[i].arg)
       /\ ~QuoteOnce(calls[i].arg)
       /\ EndsWith(calls[i].arg, S_USD)
       /\ Len(calls[i].ret) >= Len(calls[i].arg) + 2
       /\ calls[i + 1].ret = calls[i].arg

\* C18: prepare_event returns, for every event, the channel of the event's
\* kind (AggTrade: flash_arb:tick, Kline: flash_arb:kline, DepthUpdate:
\* flash_arb:depth, BookTicker: flash_arb:ticker), whatever the event's
\* exchange and symbol are.
C18_ChannelByKind ==
  \A i \in CallsOf("prepare_event") :
    /\ calls[i].arg.kind \in DOMAIN ChannelOfKind
    /\ calls[i].ret = ChannelOfKind[calls[i].arg.kind]

\* C18 witness: a kline event of OKX for ETHUSDT has been routed
C18_Witness ==
  /\ last = "prepare_event"
  /\ \E i \in CallsOf("prepare_event") :
       /\ calls[i].arg.kind = "Kline"
       /\ calls[i].arg.exchange = Okx
       /\ calls[i].arg.symbol = ETHUSDT
       /\ calls[i].ret = "flash_arb:kline"

\* the decimal value a text of DecimalTexts stands for, as written there
ValueOf(text) == (CHOOSE d \in DecimalTexts : d.text = text).value

\* whether the JSON object frame carries the event type e
HasEventType(frame, e) == "e" \in DOMAIN frame[2] /\ frame[2].e = JStr(e)

HasBookTickerFields(frame) == {"s", "b", "B", "a", "A"} \subseteq DOMAIN frame[2]

\* C20: parse_message applied to a Binance book-ticker frame that carries s,
\* b, B, a and A, with the event type e or, as the frame of the test, without
\* it, returns Ok with a BookTicker whose symbol is s and whose bid_price and
\* ask_price are the decimal values of b and a.
C20_BookTickerParsed ==
  \A i \in CallsOf("parse_message") :
    HasBookTickerFields(calls[i].arg) =>
      /\ calls[i].ret.ok
      /\ calls[i].ret.event.kind = "BookTicker"
      /\ calls[i].ret.event.symbol = calls[i].arg[2].s[2]
      /\ calls[i].ret.event.bid_price = ValueOf(calls[i].arg[2].b[2])
      /\ calls[i].ret.event.ask_price = ValueOf(calls[i].arg[2].a[2])

\* the positional array of a candle frame, and the interval token that
\* follows "public-candle" in the frame's channel
CandleOf(frame) == frame[2].data[2][1][2]
TokenOf(frame) ==
  SubSeq(frame[2].arg[2].channel[2], Len(S_public_candle) + 1,
         Len(frame[2].arg[2].channel[2]))

\* the number a text of TsTexts stands for, as written there
TsValueOf(text) == (CHOOSE t \in TsTexts : t.text = text).value

\* the duration of each kline interval in milliseconds
KlineDurations ==
  {[token |-> <<"1","m">>, ms |-> 60000], [token |-> <<"5","m">>, ms |-> 300000],
   [token |-> <<"1","5","m">>, ms |-> 900000], [token |-> <<"3","0","m">>, ms |-> 1800000],
   [token |-> <<"1","h">>, ms |-> 3600000], [token |-> <<"4","h">>, ms |-> 14400000],
   [token |-> <<"1","d">>, ms |-> 86400000]}

\* the calls of OkxClient::parse_message on a candle frame that returned Ok
KlineCalls ==
  {i \in CallsOf("okx_parse_message") :
     calls[i].ret.ok /\ calls[i].ret.event.kind = "Kline"}

\* C21: every Kline the OKX adapter builds from a candle frame of the
\* interval tokens 1m, 5m, 15m, 30m, 1h, 4h, 1d has
\* close_time = open_time + duration - 1, the duration being 60000, 300000,
\* 900000, 1800000, 3600000, 14400000, 86400000 ms for these tokens.
C21_CloseTimeDerived ==
  \A i \in CallsOf("okx_parse_message") :
    /\ i \in KlineCalls
    /\ \E d \in KlineDurations :
         /\ d.token = TokenOf(calls[i].arg)
         /\ calls[i].ret.event.close_time = calls[i].ret.event.open_time + d.ms - 1

\* C21 witness: a 1m candle that opens at 1700000000 has been given the
\* close time 1700059999, and a 1d candle its own
C21_Witness ==
  /\ last = "okx_parse_message"
  /\ \E i \in KlineCalls :
       \/ /\ TokenOf(calls[i].arg) = <<"1","m">>
          /\ calls[i].ret.event.open_time = 1700000000
          /\ calls[i].ret.event.close_time = 1700059999
          /\ "confirm" \in DOMAIN calls[i].arg[2]
       \/ /\ TokenOf(calls[i].arg) = <<"1","d">>
          /\ calls[i].ret.event.open_time = 60000
          /\ calls[i].ret.event.close_time = 86459999
          /\ "confirm" \in DOMAIN calls[i].arg[2]

\* C22: the OKX adapter reads a candle as [ts, open, high, low, close, vol,
\* ...]: the Kline's open_time is element 0 and its open, high, low, close
\* and volume are the elements 1, 2, 3, 4 and 5.
C22_CandlePositions ==
  \A i \in CallsOf("okx_parse_message") :
    /\ i \in KlineCalls
    /\ calls[i].ret.event.open_time = TsValueOf(CandleOf(calls[i].arg)[1][2])
    /\ calls[i].ret.event.open = ValueOf(CandleOf(calls[i].arg)[2][2])
    /\ calls[i].ret.event.high = ValueOf(CandleOf(calls[i].arg)[3][2])
    /\ calls[i].ret.event.low = ValueOf(CandleOf(calls[i].arg)[4][2])
    /\ calls[i].ret.event.close = ValueOf(CandleOf(calls[i].arg)[5][2])
    /\ calls[i].ret.event.volume = ValueOf(CandleOf(calls[i].arg)[6][2])

\* the confirm booleans a candle frame carries: the frame's key "confirm"
\* and a boolean that ends the positional array
ConfirmFlags(frame) ==
  {frame[2][k][2] : k \in {"confirm"} \cap DOMAIN frame[2]}
  \cup {CandleOf(frame)[n][2] :
          n \in {m \in {Len(CandleOf(frame))} : CandleOf(frame)[m][1] = "bool"}}

\* C23: a candle frame whose confirm flag is true yields a Kline with
\* is_closed true, and one whose flag is false a Kline with is_closed false.
C23_ConfirmIsClosed ==
  \A i \in CallsOf("okx_parse_message") :
    \A flag \in BOOLEAN :
      ConfirmFlags(calls[i].arg) = {flag} =>
        i \in KlineCalls /\ calls[i].ret.event.is_closed = flag

\* positions in fx at which a frame is read from the stream
Reads(fx) == {j \in 1..Len(fx) : fx[j].k = "read"}

\* the frame of the script that the read at position j of fx took: the n-th
\* read takes the n-th frame
FrameRead(script, fx, j) == script[Cardinality({k \in Reads(fx) : k <= j})]

PositionOf(e) == CHOOSE k \in 1..Len(exchange_map) : exchange_map[k] = e

\* the drain's recv_event() on exchange e has just returned
Returned(e) == last = "drain" /\ calls[1].ex = e

\* the drain's recv_event() on exchange e has just returned an event
Delivered(e) == Returned(e) /\ calls[1].ret # None

\* exchange e is one of two configured exchanges and its adapter holds a
\* live stream on which recv_event() would read
Reading(e) ==
  /\ pc = "loop"
  /\ Len(exchange_map) = 2
  /\ e \in Range(exchange_map)
  /\ clients[e].connected
  /\ Usable(clients[e])

\* C25, as stated: if the recv_event() of one adapter waits forever on an
\* idle connection, no event of any sibling adapter is delivered any more,
\* although the ticks keep firing.
C25_IdleStarvesSiblings ==
  \A e \in ExchangeType : \A s \in ExchangeType \ {e} :
    <>[](Reading(e) /\ ~Returned(e)) => <>[]~Delivered(s)

\* C25, amended: adapters are read one at a time in the map's iteration
\* order and a tick starts the drain again at the first adapter:
\* recv_event() returns on an adapter that is not the first only right after
\* the recv_event() of the adapter before it has returned, with no tick in
\* between.  An adapter that waits forever starves the adapters after it.
C25_DrainInOrder ==
  [][(last' = "drain") =>
       \/ PositionOf(calls'[1].ex) = 1
       \/ /\ last = "drain"
          /\ PositionOf(calls[1].ex) = PositionOf(calls'[1].ex) - 1]_vars

\* C25 witness: the second of two adapters has delivered an event
C25_Witness ==
  /\ Len(exchange_map) = 2
  /\ Delivered(exchange_map[2])
  /\ drainIdx = 0
  /\ Reading(exchange_map[1])

\* the symbols of SubscriptionInputs, each with its lower-case spelling and
\* with OKX's spelling, one hyphen before the quote asset
SymbolSpellings ==
  {[symbol |-> BTCUSDT, lower |-> <<"b","t","c","u","s","d","t">>,
    okx |-> <<"B","T","C","-","U","S","D","T">>],
   [symbol |-> <<"e","t","h","U","S","D","T">>,
    lower |-> <<"e","t","h","u","s","d","t">>,
    okx |-> <<"e","t","h","-","U","S","D","T">>]}

SpellingOf(symbol) == CHOOSE sp \in SymbolSpellings : sp.symbol = symbol

\* the token of an interval, 1m when there is none
IntervalToken(interval) ==
  IF interval = None THEN <<"1","m">>
  ELSE CASE interval[1] = "OneMinute" -> <<"1","m">>
         [] interval[1] = "FiveMinutes" -> <<"5","m">>
         [] interval[1] = "FifteenMinutes" -> <<"1","5","m">>
         [] interval[1] = "ThirtyMinutes" -> <<"3","0","m">>
         [] interval[1] = "OneHour" -> <<"1","h">>
         [] interval[1] = "FourHours" -> <<"4","h">>
         [] interval[1] = "OneDay" -> <<"1","d">>

\* the stream token Binance expects for a subscription
ExpectedToken(sub) ==
  SpellingOf(sub.symbol).lower
    \o (CASE sub.data_type = "AggTrade" -> <<"@aggTrade">>
          [] sub.data_type = "Kline" -> <<"@kline_">> \o IntervalToken(sub.interval)
          [] sub.data_type = "Depth" -> <<"@depth@100ms">>
          [] sub.data_type = "BookTicker" -> <<"@bookTicker">>)

\* C26: build_stream_url gives the base URL followed by one token per
\* subscription, in input order; each token is the lower-cased symbol and
\* @aggTrade, @kline_<interval>, @depth@100ms or @bookTicker by data kind;
\* the interval shows in the token of a Kline only, 1m when it is missing.
C26_StreamUrl ==
  \A i \in CallsOf("build_stream_url") :
    /\ Len(calls[i].ret) = 1 + Len(calls[i].arg)
    /\ calls[i].ret[1] = clients[Binance].ws_url
    /\ \A k \in 1..Len(calls[i].arg) :
         calls[i].ret[k + 1] = ExpectedToken(calls[i].arg[k])

\* C26 witness: a URL has been built for a Kline without interval of a
\* symbol in mixed case, followed by a Depth subscription with an interval
C26_Witness ==
  /\ last = "build_stream_url"
  /\ \E i \in CallsOf("build_stream_url") :
       /\ Len(calls[i].arg) = 2
       /\ calls[i].arg[1] = Subscription(<<"e","t","h","U","S","D","T">>, "Kline", None)
       /\ calls[i].arg[2] = Subscription(BTCUSDT, "Depth", Some("OneDay"))
       /\ calls[i].ret[2] = <<"e","t","h","u","s","d","t","@kline_","1","m">>
       /\ calls[i].ret[3] = <<"b","t","c","u","s","d","t","@depth@100ms">>

\* the channel OKX expects for a subscription
ExpectedChannel(sub) ==
  (CASE sub.data_type = "AggTrade" -> <<"public-trade:">>
     [] sub.data_type = "Kline" ->
          <<"public-candle">> \o IntervalToken(sub.interval) \o <<":">>
     [] sub.data_type = "Depth" -> <<"public-books:">>
     [] sub.data_type = "BookTicker" -> <<"public-tickers:">>)
    \o SpellingOf(sub.symbol).okx

\* C27: the OKX subscribe message names, for each subscription, the channel
\* public-trade:<sym>, public-candle<interval>:<sym>, public-books:<sym> or
\* public-tickers:<sym> by data kind, <sym> being the symbol with exactly one
\* hyphen, before the quote asset (BTCUSDT gives public-trade:BTC-USDT).
C27_ChannelNames ==
  \A i \in CallsOf("build_subscription_msg") :
    /\ Len(calls[i].ret.args) = Len(calls[i].arg)
    /\ \A k \in 1..Len(calls[i].arg) :
         calls[i].ret.args[k].channel = ExpectedChannel(calls[i].arg[k])

\* C28: the timestamp of a Binance aggTrade is T, or E when T is absent: a
\* frame with p, q, s, m, a and E parses to an AggTrade with or without T,
\* and without T the timestamp is E.
C28_TimestampFallsBackToE ==
  \A i \in CallsOf("parse_message") :
    HasEventType(calls[i].arg, S_aggTrade) =>
      /\ calls[i].ret.ok
      /\ calls[i].ret.event.kind = "AggTrade"
      /\ calls[i].ret.event.timestamp =
           IF "T" \in DOMAIN calls[i].arg[2] THEN calls[i].arg[2].T[2]
           ELSE calls[i].arg[2].E[2]

\* C29: over any sequence of connect, disconnect, subscribe, unsubscribe and
\* recv_event calls on an adapter, failed calls among them, an adapter whose
\* is_connected() is true holds a stream.
C29_ConnectedHoldsStream ==
  \A e \in Range(exchange_map) : is_connected(clients[e]) => Holds(clients[e])

\* the last reconnect tick connected exchange e, the subscribe() after it
\* failed, and the adapter is still flagged connected
FailedResubscribe(e) ==
  /\ last = "reconnect"
  /\ is_connected(clients[e])
  /\ \E i \in CallsOf("subscribe") :
       /\ calls[i].ex = e
       /\ ~calls[i].ok
       /\ i > 1 /\ calls[i - 1].op = "connect" /\ calls[i - 1].ex = e /\ calls[i - 1].ok

\* a subscribe() on exchange e has just been accepted
Resubscribed(e) ==
  \E i \in CallsOf("subscribe") : calls[i].ex = e /\ calls[i].ok

\* C30: when the connect() of a reconnect tick succeeded and the subscribe()
\* after it failed, the adapter does not stay connected and unsubscribed:
\* it is disconnected then or later, so that the ticks connect and subscribe
\* it again, or a later subscribe() on it is accepted.
C30_NoConnectedUnsubscribed ==
  \A e \in ExchangeType :
    FailedResubscribe(e) ~> (~is_connected(clients[e]) \/ Resubscribed(e))

\* the calls of recv_event() of the last step of the loop, those that
\* returned and the one whose future was dropped
RecvCalls ==
  {i \in 1..Len(calls) : calls[i].op \in {"recv_event", "recv_event dropped"}}

\* the read at position j of the effects of call i took a text frame that
\* parses to an event
TookEvent(i, j) ==
  /\ j \in Reads(calls[i].fx)
  /\ calls[i].fx[j].v = "text"
  /\ \E now \in Clock :
       awaits_after(calls[i].pre, FrameRead(calls[i].arg, calls[i].fx, j), now)

\* C31: in the gateway loop, every text frame that a recv_event() has taken
\* from its socket and that parses to an event is followed, in that call, by
\* a completed publish call for that event - also when a tick wins the
\* select while the call waits at the socket read, at a pong send or at the
\* publish.
C31_NoFrameLost ==
  pc = "loop" =>
    \A i \in RecvCalls : \A j \in 1..Len(calls[i].fx) :
      TookEvent(i, j) =>
        \E k \in Published(calls[i].fx) :
          /\ k > j
          /\ \E now \in Clock :
               calls[i].fx[k].v.event =
                 event_of(calls[i].pre, FrameRead(calls[i].arg, calls[i].fx, j), now)

\* positions in fx of the control messages that went out on a stream
Sent(fx) == {j \in 1..Len(fx) : fx[j].k = "send" /\ fx[j].v.ok}

\* C32: an OKX subscribe() that has sent no subscribe message on a stream
\* returns Err and tracks no symbol: it returns Ok, and it adds to the
\* tracked symbols, only when the message was sent.
C32_OkxSubscribeOkOnlyWhenSent ==
  \A i \in CallsOf("subscribe") :
    (calls[i].ex = Okx /\ Sent(calls[i].fx) = {}) =>
      /\ ~calls[i].ok
      /\ calls[i].post.symbols = calls[i].pre.symbols

\* the text of a JSON string that is one of the decimal texts
IsDecimal(v) == v[1] = "str" /\ v[2] \in {d.text : d \in DecimalTexts}

\* the entry is a [price, qty] pair of decimal strings and nothing else
WellFormedPair(entry) ==
  /\ entry[1] = "arr"
  /\ Len(entry[2]) = 2
  /\ IsDecimal(entry[2][1])
  /\ IsDecimal(entry[2][2])

\* the entry is an array that starts with a price and a qty, both decimal
\* strings
LeadingPair(entry) ==
  /\ entry[1] = "arr"
  /\ Len(entry[2]) >= 2
  /\ IsDecimal(entry[2][1])
  /\ IsDecimal(entry[2][2])

\* the (price, qty) levels that the entries denote, in their order
LevelsOf(entries) ==
  [k \in 1..Len(entries) |->
     <<ValueOf(entries[k][2][1][2]), ValueOf(entries[k][2][2][2])>>]

\* the entries under `key` of the frame: none when the key is missing or
\* its value is no array
SideEntries(frame, key) ==
  IF key \in DOMAIN frame[2] /\ frame[2][key][1] = "arr"
    THEN frame[2][key][2] ELSE <<>>

\* the calls of parse_message on a depthUpdate frame that carries s and E
DepthCalls ==
  {i \in 1..Len(calls) :
     /\ calls[i].op = "parse_message"
     /\ HasEventType(calls[i].arg, S_depthUpdate)
     /\ {"s", "E"} \subseteq DOMAIN calls[i].arg[2]}

\* C33, as stated: the bids and the asks of a depthUpdate frame that carries
\* s and E are exactly the entries of b and of a that are a pair of decimal
\* strings, in frame order; every other entry is skipped.
C33_ExactPairsOnly ==
  \A i \in DepthCalls :
    /\ calls[i].ret.ok
    /\ calls[i].ret.event.bids
         = LevelsOf(SelectSeq(SideEntries(calls[i].arg, "b"), WellFormedPair))
    /\ calls[i].ret.event.asks
         = LevelsOf(SelectSeq(SideEntries(calls[i].arg, "a"), WellFormedPair))

\* C33, amended: a depthUpdate frame that carries s and E always parses; its
\* bids (and likewise its asks) are, in frame order, the first two elements
\* of every entry of b (of a) that is an array of two or more elements
\* starting with two decimal strings; every other entry is skipped, and a
\* missing or non-array b or a gives an empty list.
C33_DepthLevels ==
  \A i \in DepthCalls :
    /\ calls[i].ret.ok
    /\ calls[i].ret.event.kind = "DepthUpdate"
    /\ calls[i].ret.event.bids
         = LevelsOf(SelectSeq(SideEntries(calls[i].arg, "b"), LeadingPair))
    /\ calls[i].ret.event.asks
         = LevelsOf(SelectSeq(SideEntries(calls[i].arg, "a"), LeadingPair))

\* C33 witness: a frame without "a" whose b holds a malformed entry before a
\* well-formed pair has parsed to one bid and no ask
C33_Witness ==
  /\ last = "parse_message"
  /\ \E i \in DepthCalls :
       /\ "a" \notin DOMAIN calls[i].arg[2]
       /\ Len(SideEntries(calls[i].arg, "b")) = 2
       /\ ~LeadingPair(SideEntries(calls[i].arg, "b")[1])
       /\ WellFormedPair(SideEntries(calls[i].arg, "b")[2])
       /\ Len(calls[i].ret.event.bids) = 1
       /\ calls[i].ret.event.asks = <<>>

====
